---- MODULE Spec2Model ----
(***************************************************************************)
(* Model of the repository triage engine of Sensebase                      *)
(* (src/src/extractors/repo_prep.py): the walk of RepoFilePreparator       *)
(* .prepare, the binary and tier classifiers, the file-tree renderer and   *)
(* the token budgeter (demotion of Tier-2 records, truncation of Tier-1    *)
(* records), up to the returned RepoManifest.                              *)
(*                                                                         *)
(* Strings are tuples of one-character strings, so that stem, suffix,      *)
(* lower-casing, prefix and substring tests are computed as pathlib and    *)
(* str compute them.  A text (file content, signature outline, file tree)  *)
(* is the sequence of the lengths of its lines, each line counted with its *)
(* terminator (str.splitlines(keepends=True)): the budgeter reads nothing  *)
(* of a text but its length and its division into lines.                   *)
(*                                                                         *)
(* The signature scanners (_extract_python_signatures, _extract_js_ts_     *)
(* signatures, _extract_curly_brace_signatures, _extract_generic_          *)
(* signatures) read the characters of the lines.  They are modelled as     *)
(* step machines over source files whose lines are character tuples, one   *)
(* action per loop iteration or branch (SpecScan, SpecScanFair), and       *)
(* SpecRuns is the loop of prepare() that calls them on one file after     *)
(* another with the same object.                                           *)
(*                                                                         *)
(* SpecTree follows _build_file_tree line by line on lists of paths given  *)
(* in any order, SpecReads takes the reads and extractions of steps 3 and  *)
(* 4 of prepare() in any order before the budgeter runs, and SpecCrawl is  *)
(* CrawlManager (src/src/api/crawl_manager.py) with several callers of     *)
(* start() and the pipeline threads they start.                            *)
(***************************************************************************)
EXTENDS Integers, Sequences, FiniteSets, TLC

VARIABLES
    disk,            \* the files under repo_path, as the file system presents them
    max_tokens,      \* self.max_tokens
    pc,              \* position of prepare()
    sniffed,         \* the paths _is_binary opened to read their first 8 KiB
    text_reads,      \* the paths _safe_read called read_text on
    all_files,       \* list[Path]: the files that passed the filters
    tier1_paths,     \* list[Path]
    tier2_paths,     \* list[Path]
    tier3_paths,     \* list[Path]
    tier1_files,     \* list[dict] {path, content, language}
    tier2_files,     \* list[dict] {path, signatures, language}
    tier3_file_strs, \* list[str]
    file_tree,       \* str
    tree_tokens,     \* int
    tier1_tokens,    \* int
    total_tokens,    \* int
    manifest,        \* <<>> until prepare returns, then <<RepoManifest>>
    scan_language,   \* language, as _extract_signatures is called with it
    scan_lines,      \* lines: content.splitlines() of the call
    scan_pc,         \* position of the scanner that runs
    scan_i,          \* i: the scanner's cursor, counted from 0
    scan_result,     \* result: list[str], the lines kept so far
    scan_stack,      \* the frames of the calls that wait for the running one
    scan_loc,        \* the other local variables of the running call
    scan_output,     \* <<>> until the call returns, then << the result list >>
    scan_extracted,  \* the calls that returned before the running one, and their outputs
    tree_files,      \* all_files, as _build_file_tree is called with it
    tree_pc,         \* position of _build_file_tree
    tree_rel_paths,  \* rel_paths: list[str], sorted
    tree_k,          \* the number of rel_paths the outer loop has taken
    tree_parts,      \* parts: list[str] of the path the loop is at
    tree_depth,      \* depth: the counter of the inner loop
    tree_seen_dirs,  \* seen_dirs: set[str]
    tree_lines,      \* lines: list[str]
    tree_output,     \* <<>> until the call returns, then << the returned str >>
    tree_returned,   \* the calls that returned before the running one, and their outputs
    read_content,    \* path -> what _safe_read returned for it, for the paths read so far
    read_signatures, \* path -> what _extract_signatures returned for its content
    read_finished,   \* the paths in the order in which their reads and extractions ended
    crawl_pc,        \* caller -> position of its call of CrawlManager.start
    crawl_job_id,    \* caller -> job_id of its call: the place of the CrawlJob it made, 0 before
    crawl_calls,     \* the number of calls of start() so far
    crawl_lock,      \* self._lock: 0, or the caller that holds it
    crawl_job,       \* self.job: the place of the CrawlJob in crawl_jobs
    crawl_jobs,      \* the CrawlJob objects made so far: status, current_stage, error
    crawl_thread,    \* self._thread: 0 for None, or the place of the Thread in crawl_threads
    crawl_threads,   \* the Thread objects made so far: state, and position of _run_pipeline
    crawl_result     \* caller -> what its last call of start() returned

\* the variables of prepare()
prep_vars ==
    << disk, max_tokens, pc, sniffed, text_reads, all_files, tier1_paths, tier2_paths, tier3_paths,
       tier1_files, tier2_files, tier3_file_strs, file_tree, tree_tokens,
       tier1_tokens, total_tokens, manifest >>

\* the variables of a call of _extract_signatures
scan_vars ==
    << scan_language, scan_lines, scan_pc, scan_i, scan_result, scan_stack,
       scan_loc, scan_output, scan_extracted >>

\* the variables of a call of _build_file_tree
tree_vars ==
    << tree_files, tree_pc, tree_rel_paths, tree_k, tree_parts, tree_depth,
       tree_seen_dirs, tree_lines, tree_output, tree_returned >>

\* the variables of the reads and extractions done in any order
read_vars ==
    << read_content, read_signatures, read_finished >>

\* the variables of CrawlManager and of the threads that use it
crawl_vars ==
    << crawl_pc, crawl_job_id, crawl_calls, crawl_lock, crawl_job, crawl_jobs, crawl_thread,
       crawl_threads, crawl_result >>

\* the variables of the operations that are modelled on their own, apart from
\* prepare() and the scanners
side_vars ==
    << tree_vars, read_vars, crawl_vars >>

vars ==
    << prep_vars, scan_vars, side_vars >>

----------------------------------------------------------------------------
(* Module constants of repo_prep.py *)

DEFAULT_SKIP_DIRS ==
    { <<"n", "o", "d", "e", "_", "m", "o", "d", "u", "l", "e", "s">>,
      <<"v", "e", "n", "d", "o", "r">>,
      <<".", "v", "e", "n", "v">>,
      <<"v", "e", "n", "v">>,
      <<"_", "_", "p", "y", "c", "a", "c", "h", "e", "_", "_">>,
      <<"t", "a", "r", "g", "e", "t">>,
      <<"b", "u", "i", "l", "d">>,
      <<"d", "i", "s", "t">>,
      <<".", "g", "i", "t">>,
      <<".", "i", "d", "e", "a">>,
      <<".", "v", "s", "c", "o", "d", "e">> }

BINARY_EXTENSIONS ==
    { <<".", "p", "n", "g">>,
      <<".", "j", "p", "g">>,
      <<".", "j", "p", "e", "g">>,
      <<".", "g", "i", "f">>,
      <<".", "b", "m", "p">>,
      <<".", "i", "c", "o">>,
      <<".", "s", "v", "g">>,
      <<".", "w", "e", "b", "p">>,
      <<".", "t", "i", "f", "f">>,
      <<".", "w", "o", "f", "f">>,
      <<".", "w", "o", "f", "f", "2">>,
      <<".", "t", "t", "f">>,
      <<".", "o", "t", "f">>,
      <<".", "e", "o", "t">>,
      <<".", "z", "i", "p">>,
      <<".", "t", "a", "r">>,
      <<".", "g", "z">>,
      <<".", "b", "z", "2">>,
      <<".", "x", "z">>,
      <<".", "r", "a", "r">>,
      <<".", "7", "z">>,
      <<".", "p", "y", "c">>,
      <<".", "p", "y", "o">>,
      <<".", "c", "l", "a", "s", "s">>,
      <<".", "o">>,
      <<".", "s", "o">>,
      <<".", "d", "y", "l", "i", "b">>,
      <<".", "d", "l", "l">>,
      <<".", "e", "x", "e">>,
      <<".", "j", "a", "r">>,
      <<".", "w", "a", "r">>,
      <<".", "e", "a", "r">>,
      <<".", "m", "p", "3">>,
      <<".", "m", "p", "4">>,
      <<".", "a", "v", "i">>,
      <<".", "m", "o", "v">>,
      <<".", "w", "a", "v">>,
      <<".", "f", "l", "a", "c">>,
      <<".", "p", "d", "f">>,
      <<".", "d", "o", "c">>,
      <<".", "d", "o", "c", "x">>,
      <<".", "x", "l", "s">>,
      <<".", "x", "l", "s", "x">>,
      <<".", "p", "p", "t">>,
      <<".", "p", "p", "t", "x">>,
      <<".", "d", "b">>,
      <<".", "s", "q", "l", "i", "t", "e">>,
      <<".", "s", "q", "l", "i", "t", "e", "3">> }

LOCK_FILES ==
    { <<"p", "a", "c", "k", "a", "g", "e", "-", "l", "o", "c", "k", ".", "j", "s", "o", "n">>,
      <<"y", "a", "r", "n", ".", "l", "o", "c", "k">>,
      <<"p", "n", "p", "m", "-", "l", "o", "c", "k", ".", "y", "a", "m", "l">>,
      <<"p", "o", "e", "t", "r", "y", ".", "l", "o", "c", "k">>,
      <<"C", "a", "r", "g", "o", ".", "l", "o", "c", "k">>,
      <<"g", "o", ".", "s", "u", "m">>,
      <<"G", "e", "m", "f", "i", "l", "e", ".", "l", "o", "c", "k">>,
      <<"c", "o", "m", "p", "o", "s", "e", "r", ".", "l", "o", "c", "k">>,
      <<"P", "i", "p", "f", "i", "l", "e", ".", "l", "o", "c", "k">> }

ENTRY_POINT_NAMES ==
    { <<"m", "a", "i", "n", ".", "p", "y">>,
      <<"a", "p", "p", ".", "p", "y">>,
      <<"i", "n", "d", "e", "x", ".", "t", "s">>,
      <<"i", "n", "d", "e", "x", ".", "j", "s">>,
      <<"a", "p", "p", "l", "i", "c", "a", "t", "i", "o", "n", ".", "j", "a", "v", "a">>,
      <<"m", "a", "i", "n", ".", "j", "a", "v", "a">>,
      <<"m", "a", "i", "n", ".", "g", "o">>,
      <<"s", "e", "r", "v", "e", "r", ".", "p", "y">>,
      <<"s", "e", "r", "v", "e", "r", ".", "j", "s">>,
      <<"s", "e", "r", "v", "e", "r", ".", "t", "s">> }

CONFIG_FILE_NAMES ==
    { <<"d", "o", "c", "k", "e", "r", "-", "c", "o", "m", "p", "o", "s", "e", ".", "y", "m", "l">>,
      <<"d", "o", "c", "k", "e", "r", "-", "c", "o", "m", "p", "o", "s", "e", ".", "y", "a", "m", "l">>,
      <<"d", "o", "c", "k", "e", "r", "-", "c", "o", "m", "p", "o", "s", "e", ".", "o", "v", "e", "r", "r", "i", "d", "e", ".", "y", "m", "l">>,
      <<"d", "o", "c", "k", "e", "r", "f", "i", "l", "e">>,
      <<"p", "o", "m", ".", "x", "m", "l">>,
      <<"b", "u", "i", "l", "d", ".", "g", "r", "a", "d", "l", "e">>,
      <<"b", "u", "i", "l", "d", ".", "g", "r", "a", "d", "l", "e", ".", "k", "t", "s">>,
      <<"p", "a", "c", "k", "a", "g", "e", ".", "j", "s", "o", "n">>,
      <<"g", "o", ".", "m", "o", "d">>,
      <<"p", "y", "p", "r", "o", "j", "e", "c", "t", ".", "t", "o", "m", "l">>,
      <<"c", "a", "r", "g", "o", ".", "t", "o", "m", "l">>,
      <<"r", "e", "q", "u", "i", "r", "e", "m", "e", "n", "t", "s", ".", "t", "x", "t">>,
      <<"g", "e", "m", "f", "i", "l", "e">>,
      <<"m", "a", "k", "e", "f", "i", "l", "e">>,
      <<"c", "m", "a", "k", "e", "l", "i", "s", "t", "s", ".", "t", "x", "t">>,
      <<"t", "s", "c", "o", "n", "f", "i", "g", ".", "j", "s", "o", "n">>,
      <<"w", "e", "b", "p", "a", "c", "k", ".", "c", "o", "n", "f", "i", "g", ".", "j", "s">>,
      <<"v", "i", "t", "e", ".", "c", "o", "n", "f", "i", "g", ".", "t", "s">>,
      <<"v", "i", "t", "e", ".", "c", "o", "n", "f", "i", "g", ".", "j", "s">> }

CONFIG_EXTENSIONS ==
    { <<".", "y", "a", "m", "l">>,
      <<".", "y", "m", "l">>,
      <<".", "t", "o", "m", "l">>,
      <<".", "i", "n", "i">> }

TIER1_NAME_KEYWORDS ==
    { <<"r", "o", "u", "t", "e">>,
      <<"c", "o", "n", "t", "r", "o", "l", "l", "e", "r">>,
      <<"h", "a", "n", "d", "l", "e", "r">>,
      <<"e", "n", "d", "p", "o", "i", "n", "t">>,
      <<"m", "o", "d", "e", "l">>,
      <<"s", "c", "h", "e", "m", "a">>,
      <<"e", "n", "t", "i", "t", "y">>,
      <<"m", "i", "g", "r", "a", "t", "i", "o", "n">> }

SOURCE_EXTENSIONS ==
    { <<".", "p", "y">>,
      <<".", "j", "a", "v", "a">>,
      <<".", "g", "o">>,
      <<".", "j", "s">>,
      <<".", "t", "s">>,
      <<".", "j", "s", "x">>,
      <<".", "t", "s", "x">>,
      <<".", "r", "b">>,
      <<".", "r", "s">>,
      <<".", "c", "s">>,
      <<".", "p", "h", "p">>,
      <<".", "s", "q", "l">>,
      <<".", "g", "r", "a", "p", "h", "q", "l">>,
      <<".", "p", "r", "o", "t", "o">> }

EXT_TO_LANGUAGE ==
    { <<<<".", "p", "y">>, "python">>,
      <<<<".", "p", "y", "i">>, "python">>,
      <<<<".", "j", "a", "v", "a">>, "java">>,
      <<<<".", "g", "o">>, "go">>,
      <<<<".", "j", "s">>, "javascript">>,
      <<<<".", "j", "s", "x">>, "javascript">>,
      <<<<".", "t", "s">>, "typescript">>,
      <<<<".", "t", "s", "x">>, "typescript">>,
      <<<<".", "r", "b">>, "ruby">>,
      <<<<".", "r", "s">>, "rust">>,
      <<<<".", "c", "s">>, "csharp">>,
      <<<<".", "p", "h", "p">>, "php">>,
      <<<<".", "s", "q", "l">>, "sql">>,
      <<<<".", "g", "r", "a", "p", "h", "q", "l">>, "graphql">>,
      <<<<".", "g", "q", "l">>, "graphql">>,
      <<<<".", "p", "r", "o", "t", "o">>, "protobuf">>,
      <<<<".", "y", "a", "m", "l">>, "yaml">>,
      <<<<".", "y", "m", "l">>, "yaml">>,
      <<<<".", "t", "o", "m", "l">>, "toml">>,
      <<<<".", "j", "s", "o", "n">>, "json">>,
      <<<<".", "x", "m", "l">>, "xml">>,
      <<<<".", "i", "n", "i">>, "ini">>,
      <<<<".", "c", "f", "g">>, "ini">>,
      <<<<".", "m", "d">>, "markdown">>,
      <<<<".", "r", "s", "t">>, "restructuredtext">>,
      <<<<".", "t", "x", "t">>, "text">>,
      <<<<".", "s", "h">>, "bash">>,
      <<<<".", "b", "a", "s", "h">>, "bash">>,
      <<<<".", "z", "s", "h">>, "zsh">>,
      <<<<".", "d", "o", "c", "k", "e", "r", "f", "i", "l", "e">>, "dockerfile">> }

----------------------------------------------------------------------------
(* Characters and strings *)

\* The characters that occur in the modelled names, in ASCII order.
Chars ==
    << " ", "(", ")", "-", ".", "/",
       "0", "1", "2", "3", "4", "5", "6", "7", "8", "9",
       "A", "B", "C", "D", "E", "F", "G", "H", "I", "J", "K", "L", "M",
       "N", "O", "P", "Q", "R", "S", "T", "U", "V", "W", "X", "Y", "Z",
       "_",
       "a", "b", "c", "d", "e", "f", "g", "h", "i", "j", "k", "l", "m",
       "n", "o", "p", "q", "r", "s", "t", "u", "v", "w", "x", "y", "z" >>

UpperChars ==
    << "A", "B", "C", "D", "E", "F", "G", "H", "I", "J", "K", "L", "M",
       "N", "O", "P", "Q", "R", "S", "T", "U", "V", "W", "X", "Y", "Z" >>

LowerChars ==
    << "a", "b", "c", "d", "e", "f", "g", "h", "i", "j", "k", "l", "m",
       "n", "o", "p", "q", "r", "s", "t", "u", "v", "w", "x", "y", "z" >>

\* ord, up to an order-preserving renumbering, as a table
OrdTable ==
    [c \in {Chars[i] : i \in 1..Len(Chars)} |->
        CHOOSE i \in 1..Len(Chars) : Chars[i] = c]

\* ord(c)
Ord(c) ==
    OrdTable[c]

\* str.lower() on one character, as a table
LowerTable ==
    [c \in {Chars[i] : i \in 1..Len(Chars)} |->
        IF \E i \in 1..Len(UpperChars) : UpperChars[i] = c
        THEN LowerChars[CHOOSE i \in 1..Len(UpperChars) : UpperChars[i] = c]
        ELSE c]

\* str.lower() on one character.
LowerChar(c) ==
    LowerTable[c]

\* str.lower()
Lower(s) ==
    [i \in 1..Len(s) |-> LowerChar(s[i])]

\* Body of the value of v, with v evaluated once
With(v, Body(_)) ==
    CHOOSE r \in {Body(w) : w \in {v}} : TRUE

\* s.startswith(p)
StartsWith(s, p) ==
    With(s, LAMBDA v :
        /\ Len(p) <= Len(v)
        /\ SubSeq(v, 1, Len(p)) = p)

\* sub in s, for strings
Contains(s, sub) ==
    With(s, LAMBDA v :
        \E i \in 1..(Len(v) - Len(sub) + 1) : SubSeq(v, i, i + Len(sub) - 1) = sub)

\* a < b for strings: lexicographic on the code points
StrLess(a, b) ==
    \E k \in 1..Len(b) :
        /\ k <= Len(a) + 1
        /\ \A j \in 1..(k - 1) : a[j] = b[j]
        /\ \/ k = Len(a) + 1
           \/ Ord(a[k]) < Ord(b[k])

\* list.insert at the place sorted() gives x among the sorted entries of t
InsertSorted(t, x, Less(_, _)) ==
    With(Cardinality({j \in 1..Len(t) : ~Less(x, t[j])}),
         LAMBDA p : [j \in 1..(Len(t) + 1) |->
                        IF j <= p THEN t[j] ELSE IF j = p + 1 THEN x ELSE t[j - 1]])

\* sorted(s), a stable sort by Less
StableSort(s, Less(_, _)) ==
    With(s, LAMBDA v :
        LET f[i \in 0..Len(v)] ==
                IF i = 0 THEN << >>
                ELSE With(f[i - 1], LAMBDA t : InsertSorted(t, v[i], Less))
        IN  f[Len(v)])

\* Some enumeration of a finite set as a sequence (the order rglob yields in).
RECURSIVE SetToSeq(_)
SetToSeq(S) ==
    IF S = {} THEN << >>
    ELSE LET x == CHOOSE x \in S : TRUE IN << x >> \o SetToSeq(S \ {x})

\* the set of the entries of a list
Range(s) ==
    {s[i] : i \in 1..Len(s)}

----------------------------------------------------------------------------
(* pathlib *)

\* The index of the last "." of a name, 0 if there is none (str.rfind + 1).
LastDot(name) ==
    LET dots == {i \in 1..Len(name) : name[i] = "."}
    IN  IF dots = {} THEN 0 ELSE CHOOSE i \in dots : \A j \in dots : j <= i

\* PurePath.name of a path given as its tuple of parts
Name(path) ==
    path[Len(path)]

\* PurePath.suffix: from the last dot, unless the dot is first or last
Suffix(name) ==
    LET i == LastDot(name)
    IN  IF 1 < i /\ i < Len(name) THEN SubSeq(name, i, Len(name)) ELSE << >>

\* PurePath.stem
Stem(name) ==
    LET i == LastDot(name)
    IN  IF 1 < i /\ i < Len(name) THEN SubSeq(name, 1, i - 1) ELSE name

\* str(path): the parts joined by os.sep
PathStr(path) ==
    LET f[i \in 1..Len(path)] ==
            IF i = 1 THEN path[1] ELSE f[i - 1] \o << "/" >> \o path[i]
    IN  f[Len(path)]

\* Path.__lt__: the tuples of parts compared lexicographically
PartsLess(p, q) ==
    \E k \in 1..Len(q) :
        /\ k <= Len(p) + 1
        /\ \A j \in 1..(k - 1) : p[j] = q[j]
        /\ \/ k = Len(p) + 1
           \/ StrLess(p[k], q[k])

----------------------------------------------------------------------------
(* Texts *)

\* A text is the list of its lines (str.splitlines): kind is what the
\* fallback scanner's regular expressions see in the line ("structural",
\* "decorator", "comment", "blank" for whitespace only, "other"), len the
\* number of characters before the terminator, term the length of the
\* terminator (0 on a last line that has none).
Line(kind, len, term) ==
    [kind |-> kind, len |-> len, term |-> term]

\* the characters of the lines lo..hi of a text
RECURSIVE RangeLen(_, _, _)
RangeLen(text, lo, hi) ==
    IF lo > hi THEN 0
    ELSE IF lo = hi THEN text[lo].len + text[lo].term
    ELSE LET mid == (lo + hi) \div 2
         IN  RangeLen(text, lo, mid) + RangeLen(text, mid + 1, hi)

\* len(text)
TextLen(text) ==
    RangeLen(text, 1, Len(text))

\* "\n".join(lines): every line but the last gets a terminator
JoinLines(lines) ==
    [i \in 1..Len(lines) |->
        Line(lines[i].kind, lines[i].len, IF i < Len(lines) THEN 1 ELSE 0)]

\* _estimate_tokens: len(text) // 4
EstimateTokens(text) ==
    TextLen(text) \div 4

\* sum(_estimate_tokens(f[field]) for f in files)
SumTokens(files, Field(_)) ==
    LET f[i \in 0..Len(files)] ==
            IF i = 0 THEN 0 ELSE f[i - 1] + EstimateTokens(Field(files[i]))
    IN  f[Len(files)]

ContentOf(f) ==
    f.content

SignaturesOf(f) ==
    f.signatures

----------------------------------------------------------------------------
(* File classification *)

\* _is_binary, the two tests made on the name alone: a known binary
\* extension, or name.lower() found in LOCK_FILES
BinaryByName(path) ==
    \/ Lower(Suffix(Name(path))) \in BINARY_EXTENSIONS
    \/ Lower(Name(path)) \in LOCK_FILES

\* _is_binary without the search for a null byte
IsBinaryWithoutNullTest(e) ==
    IF BinaryByName(e.path) THEN TRUE
    ELSE e.sniff = "oserror"

\* _is_binary: the name tests, then the first 8 KiB are opened and searched
\* for a null byte; e.sniff is what the open and read give
IsBinary(e) ==
    IF BinaryByName(e.path) THEN TRUE
    ELSE IF e.sniff = "oserror" THEN TRUE
    ELSE e.sniff = "null"

\* _classify_file, README / CONTRIBUTING / CHANGELOG with any extension
DocRule(rel) ==
    LET stem_lower == Lower(Stem(Name(rel)))
    IN  \/ StartsWith(stem_lower, <<"r", "e", "a", "d", "m", "e">>)
        \/ StartsWith(stem_lower,
               <<"c", "o", "n", "t", "r", "i", "b", "u", "t", "i", "n", "g">>)
        \/ StartsWith(stem_lower, <<"c", "h", "a", "n", "g", "e", "l", "o", "g">>)

\* _classify_file, entry-point files
EntryPointRule(rel) ==
    Lower(Name(rel)) \in ENTRY_POINT_NAMES

\* _classify_file, config file names
ConfigNameRule(rel) ==
    Lower(Name(rel)) \in CONFIG_FILE_NAMES

\* _classify_file, Dockerfile variants
DockerfileRule(rel) ==
    \/ Lower(Stem(Name(rel))) = <<"d", "o", "c", "k", "e", "r", "f", "i", "l", "e">>
    \/ StartsWith(Lower(Name(rel)),
           <<"d", "o", "c", "k", "e", "r", "f", "i", "l", "e", ".">>)

\* _classify_file, docker-compose variants
ComposeRule(rel) ==
    StartsWith(Lower(Name(rel)),
        <<"d", "o", "c", "k", "e", "r", "-", "c", "o", "m", "p", "o", "s", "e">>)

\* the name-keyword test without its test of the extension
KeywordRuleAnyExtension(rel) ==
    \E kw \in TIER1_NAME_KEYWORDS : Contains(Lower(Stem(Name(rel))), kw)

\* _classify_file, name-keyword matching, for source code files only
KeywordRule(rel) ==
    /\ \E kw \in TIER1_NAME_KEYWORDS : Contains(Lower(Stem(Name(rel))), kw)
    /\ Lower(Suffix(Name(rel))) \in SOURCE_EXTENSIONS

\* the config-extension test without its test of the location
ConfigExtensionRuleAnywhere(rel) ==
    Lower(Suffix(Name(rel))) \in CONFIG_EXTENSIONS

\* _classify_file, config extensions in the root or in config/
ConfigExtensionRule(rel) ==
    /\ Lower(Suffix(Name(rel))) \in CONFIG_EXTENSIONS
    /\ \/ Len(rel) = 1
       \/ Len(rel) = 2 /\ Lower(rel[1]) = <<"c", "o", "n", "f", "i", "g">>

\* _classify_file, the Tier 1 checks; rel is file_path.relative_to(repo_root)
\* as its parts
Tier1Check(rel) ==
    \/ DocRule(rel)
    \/ EntryPointRule(rel)
    \/ ConfigNameRule(rel)
    \/ DockerfileRule(rel)
    \/ ComposeRule(rel)
    \/ KeywordRule(rel)
    \/ ConfigExtensionRule(rel)

\* _classify_file without its last line: nothing is returned for a file
\* that is neither Tier 1 nor source code (0 stands for None)
ClassifyFileNoDefault(rel) ==
    IF Tier1Check(rel) THEN 1
    ELSE IF Lower(Suffix(Name(rel))) \in SOURCE_EXTENSIONS THEN 2
    ELSE 0

\* _classify_file
ClassifyFile(rel) ==
    IF Tier1Check(rel) THEN 1
    ELSE IF Lower(Suffix(Name(rel))) \in SOURCE_EXTENSIONS THEN 2
    ELSE 3

\* _detect_language
DetectLanguage(path) ==
    LET suffix == Lower(Suffix(Name(path)))
    IN  IF StartsWith(Lower(Name(path)),
               <<"d", "o", "c", "k", "e", "r", "f", "i", "l", "e">>)
        THEN "dockerfile"
        ELSE IF \E p \in EXT_TO_LANGUAGE : p[1] = suffix
        THEN (CHOOSE p \in EXT_TO_LANGUAGE : p[1] = suffix)[2]
        ELSE "unknown"

----------------------------------------------------------------------------
(* File tree *)

\* "  " * n
Indent(n) ==
    [i \in 1..(2 * n) |-> " "]

\* the lines _build_file_tree appends for one relative path, given the
\* directory prefixes printed so far
TreeLinesOf(parts, seen_dirs) ==
    LET newdepths == {d \in 1..(Len(parts) - 1) : SubSeq(parts, 1, d) \notin seen_dirs}
        dirs      == StableSort(SetToSeq(newdepths), LAMBDA a, b : a < b)
    IN  [k \in 1..Len(dirs) |-> Indent(dirs[k]) \o parts[dirs[k]] \o << "/" >>]
        \o << Indent(Len(parts)) \o parts[Len(parts)] >>

\* the lines list of _build_file_tree for the sorted, non-empty rel_paths
TreeLinesSorted(repo_name, rel_paths) ==
    LET f[i \in 0..Len(rel_paths)] ==
            IF i = 0 THEN << repo_name \o << "/" >> >>
            ELSE f[i - 1] \o
                 TreeLinesOf(rel_paths[i],
                     UNION {{SubSeq(rel_paths[j], 1, d) : d \in 1..(Len(rel_paths[j]) - 1)}
                            : j \in 1..(i - 1)})
    IN  f[Len(rel_paths)]

\* the lines list of _build_file_tree for a non-empty all_files; rel_paths is
\* sorted once
TreeLines(repo_name, files) ==
    With(StableSort(files, LAMBDA p, q : StrLess(PathStr(p), PathStr(q))),
         LAMBDA rel_paths : TreeLinesSorted(repo_name, rel_paths))

\* _build_file_tree without its first test: the lines joined by and ended
\* with "\n" for every list
BuildFileTreeOfAnyList(repo_name, files) ==
    With(TreeLines(repo_name, files),
         LAMBDA lines : [i \in 1..Len(lines) |-> Line("other", Len(lines[i]), 1)])

\* _build_file_tree: "(empty)\n", or the lines joined by and ended with "\n"
BuildFileTree(repo_name, files) ==
    IF files = << >>
    THEN << Line("other", Len(<<"(", "e", "m", "p", "t", "y", ")">>), 1) >>
    ELSE With(TreeLines(repo_name, files),
              LAMBDA lines : [i \in 1..Len(lines) |-> Line("other", Len(lines[i]), 1)])

----------------------------------------------------------------------------
(* Signature extraction *)

\* _extract_generic_signatures: the result list after the loop
GenericResult(lines) ==
    LET f[i \in 0..Len(lines)] ==
            IF i = 0 THEN << >>
            ELSE LET result == f[i - 1]
                     line   == lines[i]
                 IN  IF line.kind = "blank"
                     THEN IF result /= << >> /\ result[Len(result)].kind /= "blank"
                          THEN Append(result, Line("blank", 0, 0))
                          ELSE result
                     ELSE IF line.kind \in {"structural", "decorator", "comment"}
                          THEN Append(result, Line(line.kind, line.len, 0))
                          ELSE result
    IN  f[Len(lines)]

\* _extract_generic_signatures
ExtractGenericSignatures(content) ==
    JoinLines(GenericResult(content))

\* The languages _extract_signatures sends to the indentation, JS/TS and
\* curly-brace scanners.  Those read the characters of the lines, which the
\* length-only texts of the budgeter do not carry: the source files of the
\* budgeter's catalogue are of the languages that go to the generic
\* fallback.  The scanners themselves are modelled further down, over
\* lines of characters.
ScannedLanguages ==
    {"python", "javascript", "typescript", "java", "go", "csharp", "rust"}

\* _extract_signatures
ExtractSignatures(content, language) ==
    CASE language \notin ScannedLanguages -> ExtractGenericSignatures(content)

----------------------------------------------------------------------------
(* The budgeter's steps *)

\* prompt_overhead
PromptOverhead ==
    2000

\* the number of lines a truncated Tier-1 content keeps
TruncateLines ==
    200

\* max_file_size (the constructor's default)
MaxFileSize ==
    500000

\* "\n# ... (truncated)\n", as the lines it adds after a terminated line
TruncationMarker ==
    << Line("blank", 0, 1),
       Line("comment",
            Len(<<"#", " ", ".", ".", ".", " ", "(", "t", "r", "u", "n", "c", "a", "t",
                  "e", "d", ")">>), 1) >>

\* prompt_overhead + tree_tokens + the Tier-1 and the Tier-2 sums
TotalOf(tree, files1, files2) ==
    PromptOverhead + tree + SumTokens(files1, ContentOf) + SumTokens(files2, SignaturesOf)

\* the comparison of the budget test turned around
OverBudgetInverted(total, limit) ==
    total < limit

\* the budget test dropped: both phases always run
OverBudgetAlways(total, limit) ==
    TRUE

\* total_tokens > self.max_tokens
OverBudget(total, limit) ==
    total > limit

\* every record is kept, whatever the running total
FitsAlways(running, cost, limit) ==
    TRUE

\* running + entry[0] <= self.max_tokens
Fits(running, cost, limit) ==
    running + cost <= limit

\* tier2_with_size, sorted by size (stable), as walked: reversed
DemotionOrder(files) ==
    LET tier2_with_size ==
            [i \in 1..Len(files) |-> << EstimateTokens(files[i].signatures), i, files[i] >>]
        sorted == StableSort(tier2_with_size, LAMBDA x, y : x[1] < y[1])
    IN  [k \in 1..Len(sorted) |-> sorted[Len(sorted) + 1 - k]]

\* a demotion that copies: the path goes to Tier 3 and the record stays
DemoteStepCopy(st, entry, limit) ==
    IF Fits(st.running, entry[1], limit)
    THEN [st EXCEPT !.running = st.running + entry[1],
                    !.kept = Append(st.kept, entry)]
    ELSE [st EXCEPT !.tier3 = Append(st.tier3, entry[3].path),
                    !.kept = Append(st.kept, entry)]

\* one turn of the demotion loop on entry, from the loop state st
DemoteStep(st, entry, limit) ==
    IF Fits(st.running, entry[1], limit)
    THEN [st EXCEPT !.running = st.running + entry[1],
                    !.kept = Append(st.kept, entry)]
    ELSE [st EXCEPT !.tier3 = Append(st.tier3, entry[3].path)]

\* the demotion loop: running, kept and tier3_file_strs after it
DemoteLoop(files, running0, tier3, limit) ==
    LET order == DemotionOrder(files)
        f[k \in 0..Len(order)] ==
            IF k = 0 THEN [running |-> running0, kept |-> << >>, tier3 |-> tier3]
            ELSE DemoteStep(f[k - 1], order[k], limit)
    IN  f[Len(order)]

\* the kept records left in the order of the walk, largest first
KeepWalkOrder(kept) ==
    [k \in 1..Len(kept) |-> kept[k][3]]

\* kept.sort(key=lambda x: x[1]); [k[2] for k in kept]
RestoreOrder(kept) ==
    LET sorted == StableSort(kept, LAMBDA x, y : x[2] < y[2])
    IN  [k \in 1..Len(sorted) |-> sorted[k][3]]

\* a truncation that appends no marker
TruncateWithoutMarker(lines) ==
    IF Len(lines) > TruncateLines
    THEN SubSeq(lines, 1, TruncateLines)
    ELSE lines

\* the new content of a Tier-1 record in the truncation loop
TruncateContent(lines) ==
    IF Len(lines) > TruncateLines
    THEN SubSeq(lines, 1, TruncateLines) \o TruncationMarker
    ELSE lines

----------------------------------------------------------------------------
(* The repositories and budgets prepare() is run on *)

\* the largest number of directory entries of a modelled repository
MaxFiles ==
    3

\* repo_path.name
RepoName ==
    <<"r", "e", "p", "o">>

\* n lines of w characters and a newline each, none a declaration
Prose(n, w) ==
    [i \in 1..n |-> Line(IF w = 0 THEN "blank" ELSE "other", w, 1)]

\* a source file of k declarations: a comment line, the declaration line,
\* two body lines and a blank line each
Source(k) ==
    [i \in 1..(5 * k) |->
        CASE i % 5 = 1 -> Line("comment", 9, 1)
          [] i % 5 = 2 -> Line("structural", 199, 1)
          [] i % 5 = 3 -> Line("other", 19, 1)
          [] i % 5 = 4 -> Line("other", 19, 1)
          [] OTHER     -> Line("blank", 0, 1)]

\* A directory entry: its path relative to the repository as the tuple of
\* its parts, is_file(), whether stat() succeeds and its st_size, what
\* sniffing its first bytes gives, whether read_text succeeds, and its text.
File(path, is_file, stat_ok, st_size, sniff, readable, content) ==
    [path |-> path, is_file |-> is_file, stat_ok |-> stat_ok, st_size |-> st_size,
     sniff |-> sniff, readable |-> readable, content |-> content]

Catalogue ==
    { File(<< <<"R", "E", "A", "D", "M", "E", ".", "m", "d">> >>,
           TRUE, TRUE, 2000, "text", TRUE, Prose(250, 7)),
      File(<< <<"R", "E", "A", "D", "M", "E", ".", "m", "d">> >>,
           TRUE, TRUE, 120, "text", FALSE, Prose(3, 39)),
      File(<< <<"m", "a", "i", "n", ".", "p", "y">> >>,
           TRUE, TRUE, 120, "text", TRUE, Prose(3, 39)),
      File(<< <<"c", "o", "n", "f", "i", "g">>, <<"a", "p", "p", ".", "y", "a", "m", "l">> >>,
           TRUE, TRUE, 201, "text", TRUE, Prose(201, 0)),
      File(<< <<"s", "r", "c">>, <<"a", "p", "i", ".", "r", "b">> >>,
           TRUE, TRUE, 810, "text", TRUE, Source(2)),
      File(<< <<"s", "r", "c">>, <<"a", "p", "i", ".", "r", "b">> >>,
           TRUE, TRUE, 810, "text", FALSE, Source(2)),
      File(<< <<"s", "r", "c">>, <<"d", "b", ".", "s", "q", "l">> >>,
           TRUE, TRUE, 2430, "text", TRUE, Source(6)),
      File(<< <<"s", "r", "c">>, <<"u", "t", "i", "l", "s", ".", "p", "h", "p">> >>,
           TRUE, TRUE, 1620, "text", TRUE, Source(4)),
      File(<< <<"t", ".", "r", "b">> >>,
           TRUE, TRUE, 40, "text", TRUE, << Line("structural", 19, 1), Line("other", 19, 1) >>),
      File(<< <<"n", "o", "t", "e", "s", ".", "t", "x", "t">> >>,
           TRUE, TRUE, 120, "text", TRUE, Prose(3, 39)),
      File(<< <<"n", "o", "d", "e", "_", "m", "o", "d", "u", "l", "e", "s">>, <<"x", ".", "j", "s">> >>,
           TRUE, TRUE, 120, "text", TRUE, Prose(3, 39)),
      File(<< <<"b", "i", "g", ".", "s", "q", "l">> >>,
           TRUE, TRUE, MaxFileSize + 1, "text", TRUE, Prose(3, 39)),
      File(<< <<"d", "a", "t", "a", ".", "d", "a", "t">> >>,
           TRUE, TRUE, 120, "null", TRUE, Prose(3, 39)),
      File(<< <<"d", "o", "c", "s">> >>,
           FALSE, TRUE, 0, "oserror", FALSE, << >>) }

\* the values of max_tokens prepare() is run with
Budgets ==
    {1000, 2260, 2450, 150000}

\* no call of _extract_signatures is followed
NoScan ==
    /\ scan_language = ""
    /\ scan_lines = << >>
    /\ scan_pc = "idle"
    /\ scan_i = 0
    /\ scan_result = << >>
    /\ scan_stack = << >>
    /\ scan_loc = << >>
    /\ scan_output = << >>
    /\ scan_extracted = << >>

\* no call of _build_file_tree on its own
NoTree ==
    /\ tree_files = << >>
    /\ tree_pc = "idle"
    /\ tree_rel_paths = << >>
    /\ tree_k = 0
    /\ tree_parts = << >>
    /\ tree_depth = 0
    /\ tree_seen_dirs = {}
    /\ tree_lines = << >>
    /\ tree_output = << >>
    /\ tree_returned = << >>

\* no read or extraction out of the order of the loops
NoReads ==
    /\ read_content = << >>
    /\ read_signatures = << >>
    /\ read_finished = << >>

\* no CrawlManager
NoCrawl ==
    /\ crawl_pc = << >>
    /\ crawl_job_id = << >>
    /\ crawl_calls = 0
    /\ crawl_lock = 0
    /\ crawl_job = 0
    /\ crawl_jobs = << >>
    /\ crawl_thread = 0
    /\ crawl_threads = << >>
    /\ crawl_result = << >>

\* none of the operations that are modelled on their own is running
NoSide ==
    /\ NoTree
    /\ NoReads
    /\ NoCrawl

\* the entry of the path on disk
Entry(path) ==
    CHOOSE e \in disk : e.path = path

Init ==
    /\ disk \in {d \in SUBSET Catalogue :
                    /\ Cardinality(d) <= MaxFiles
                    /\ \A e1, e2 \in d : e1.path = e2.path => e1 = e2}
    /\ max_tokens \in Budgets
    /\ pc = "walk"
    /\ sniffed = {}
    /\ text_reads = {}
    /\ all_files = << >>
    /\ tier1_paths = << >>
    /\ tier2_paths = << >>
    /\ tier3_paths = << >>
    /\ tier1_files = << >>
    /\ tier2_files = << >>
    /\ tier3_file_strs = << >>
    /\ file_tree = << >>
    /\ tree_tokens = 0
    /\ tier1_tokens = 0
    /\ total_tokens = 0
    /\ manifest = << >>
    /\ NoScan
    /\ NoSide

----------------------------------------------------------------------------
(* prepare() *)

\* the tests of the walk that come before _is_binary, without the test of
\* the size
SizedAnySize(e) ==
    /\ e.is_file
    /\ ~ \E i \in 1..Len(e.path) : e.path[i] \in DEFAULT_SKIP_DIRS
    /\ e.stat_ok

\* the tests of the walk that come before _is_binary
Sized(e) ==
    /\ e.is_file
    /\ ~ \E i \in 1..Len(e.path) : e.path[i] \in DEFAULT_SKIP_DIRS
    /\ e.stat_ok
    /\ ~ (e.st_size > MaxFileSize)

\* the tests of the walk that let a directory entry through
Discovered(e) ==
    /\ Sized(e)
    /\ ~ IsBinary(e)

\* steps 1 and 2: the walk over sorted(repo_path.rglob("*"))
Walk ==
    /\ pc = "walk"
    /\ \E found \in {SelectSeq(StableSort(SetToSeq({e.path : e \in disk}), PartsLess),
                                LAMBDA p : Discovered(Entry(p)))} :
           /\ all_files' = found
           /\ tier1_paths' = SelectSeq(found, LAMBDA p : ClassifyFile(p) = 1)
           /\ tier2_paths' = SelectSeq(found, LAMBDA p : ClassifyFile(p) = 2)
           /\ tier3_paths' = SelectSeq(found, LAMBDA p : ClassifyFile(p) \notin {1, 2})
    /\ sniffed' = {e.path : e \in {f \in disk : Sized(f) /\ ~ BinaryByName(f.path)}}
    /\ pc' = "read1"
    /\ UNCHANGED << scan_vars, side_vars >>
    /\ UNCHANGED << disk, max_tokens, text_reads, tier1_files, tier2_files, tier3_file_strs,
                    file_tree, tree_tokens, tier1_tokens, total_tokens, manifest >>

\* _safe_read without its except clause: the text, whatever read_text does
SafeReadUnguarded(e) ==
    << e.content >>

\* _safe_read: << text >>, or << >> for None
SafeRead(e) ==
    IF e.readable THEN << e.content >> ELSE << >>

\* the record step 3 makes of a Tier-1 path that was read
Tier1Record(path) ==
    [path |-> PathStr(path), content |-> SafeRead(Entry(path))[1],
     language |-> DetectLanguage(path)]

\* the record step 4 makes of a Tier-2 path that was read
Tier2Record(path) ==
    [path |-> PathStr(path),
     signatures |-> ExtractSignatures(SafeRead(Entry(path))[1], DetectLanguage(path)),
     language |-> DetectLanguage(path)]

\* the tier1_files list step 3 builds
ReadTier1Files(paths) ==
    With(SelectSeq(paths, LAMBDA p : SafeRead(Entry(p)) /= << >>),
         LAMBDA read : [i \in 1..Len(read) |-> Tier1Record(read[i])])

\* the tier2_files list step 4 builds
ReadTier2Files(paths) ==
    With(SelectSeq(paths, LAMBDA p : SafeRead(Entry(p)) /= << >>),
         LAMBDA read : [i \in 1..Len(read) |-> Tier2Record(read[i])])

\* step 3
ReadTier1 ==
    /\ pc = "read1"
    /\ tier1_files' = ReadTier1Files(tier1_paths)
    /\ text_reads' = text_reads \cup Range(tier1_paths)
    /\ pc' = "read2"
    /\ UNCHANGED << scan_vars, side_vars >>
    /\ UNCHANGED << disk, max_tokens, sniffed, all_files, tier1_paths, tier2_paths, tier3_paths,
                    tier2_files, tier3_file_strs, file_tree, tree_tokens, tier1_tokens,
                    total_tokens, manifest >>

\* step 4
ReadTier2 ==
    /\ pc = "read2"
    /\ tier2_files' = ReadTier2Files(tier2_paths)
    /\ text_reads' = text_reads \cup Range(tier2_paths)
    /\ pc' = "tree"
    /\ UNCHANGED << scan_vars, side_vars >>
    /\ UNCHANGED << disk, max_tokens, sniffed, all_files, tier1_paths, tier2_paths, tier3_paths,
                    tier1_files, tier3_file_strs, file_tree, tree_tokens, tier1_tokens,
                    total_tokens, manifest >>

\* step 5
BuildTree ==
    /\ pc = "tree"
    /\ tier3_file_strs' = [i \in 1..Len(tier3_paths) |-> PathStr(tier3_paths[i])]
    /\ file_tree' = BuildFileTree(RepoName, all_files)
    /\ pc' = "estimate"
    /\ UNCHANGED << scan_vars, side_vars >>
    /\ UNCHANGED << disk, max_tokens, sniffed, text_reads, all_files, tier1_paths, tier2_paths, tier3_paths,
                    tier1_files, tier2_files, tree_tokens, tier1_tokens, total_tokens,
                    manifest >>

\* step 6
Estimate ==
    /\ pc = "estimate"
    /\ tier1_tokens' = SumTokens(tier1_files, ContentOf)
    /\ tree_tokens' = EstimateTokens(file_tree)
    /\ total_tokens' = TotalOf(EstimateTokens(file_tree), tier1_files, tier2_files)
    /\ pc' = "demote"
    /\ UNCHANGED << scan_vars, side_vars >>
    /\ UNCHANGED << disk, max_tokens, sniffed, text_reads, all_files, tier1_paths, tier2_paths, tier3_paths,
                    tier1_files, tier2_files, tier3_file_strs, file_tree, manifest >>

\* step 7, first part: demotion of Tier-2 records
Demote ==
    /\ pc = "demote"
    /\ IF OverBudget(total_tokens, max_tokens)
       THEN LET out == DemoteLoop(tier2_files,
                                  PromptOverhead + tree_tokens + tier1_tokens,
                                  tier3_file_strs, max_tokens)
            IN  /\ tier2_files' = RestoreOrder(out.kept)
                /\ tier3_file_strs' = out.tier3
                /\ total_tokens' = out.running
       ELSE UNCHANGED << tier2_files, tier3_file_strs, total_tokens >>
    /\ pc' = "truncate"
    /\ UNCHANGED << scan_vars, side_vars >>
    /\ UNCHANGED << disk, max_tokens, sniffed, text_reads, all_files, tier1_paths, tier2_paths, tier3_paths,
                    tier1_files, file_tree, tree_tokens, tier1_tokens, manifest >>

\* the total left as the demotion phase computed it
StaleTotal(files1, files2) ==
    total_tokens

\* the total recomputed after the truncation
RecomputedTotal(files1, files2) ==
    TotalOf(tree_tokens, files1, files2)

\* step 7, second part: truncation of Tier-1 records
Truncate ==
    /\ pc = "truncate"
    /\ IF OverBudget(total_tokens, max_tokens)
       THEN LET truncated ==
                    [i \in 1..Len(tier1_files) |->
                        [tier1_files[i] EXCEPT !.content = TruncateContent(@)]]
            IN  /\ tier1_files' = truncated
                /\ total_tokens' = RecomputedTotal(truncated, tier2_files)
       ELSE UNCHANGED << tier1_files, total_tokens >>
    /\ pc' = "return"
    /\ UNCHANGED << scan_vars, side_vars >>
    /\ UNCHANGED << disk, max_tokens, sniffed, text_reads, all_files, tier1_paths, tier2_paths, tier3_paths,
                    tier2_files, tier3_file_strs, file_tree, tree_tokens, tier1_tokens,
                    manifest >>

\* step 8
Return ==
    /\ pc = "return"
    /\ manifest' = << [repo_name |-> RepoName,
                       file_tree |-> file_tree,
                       tier1_files |-> tier1_files,
                       tier2_files |-> tier2_files,
                       tier3_files |-> StableSort(tier3_file_strs, StrLess),
                       total_files |-> Len(all_files),
                       estimated_tokens |-> total_tokens] >>
    /\ pc' = "done"
    /\ UNCHANGED << scan_vars, side_vars >>
    /\ UNCHANGED << disk, max_tokens, sniffed, text_reads, all_files, tier1_paths, tier2_paths, tier3_paths,
                    tier1_files, tier2_files, tier3_file_strs, file_tree, tree_tokens,
                    tier1_tokens, total_tokens >>

Next ==
    \/ Walk
    \/ ReadTier1
    \/ ReadTier2
    \/ BuildTree
    \/ Estimate
    \/ Demote
    \/ Truncate
    \/ Return

Spec ==
    Init /\ [][Next]_vars

----------------------------------------------------------------------------
(* The repositories the walk and the classifiers are checked on *)

\* the number of directory entries of a repository of WalkCatalogue
MaxWalkFiles ==
    2

\* Directory entries that take every branch of the walk (lines 179-208), of
\* _is_binary and of _classify_file
WalkCatalogue ==
    { File(<< <<"m", "a", "i", "n", ".", "p", "y">> >>,
           TRUE, TRUE, 120, "text", TRUE, Prose(3, 39)),
      File(<< <<"R", "E", "A", "D", "M", "E", ".", "m", "d">> >>,
           TRUE, TRUE, 120, "text", FALSE, Prose(3, 39)),
      File(<< <<"s", "r", "c">>, <<"u", "s", "e", "r", "_", "m", "o", "d", "e", "l", ".", "r", "b">> >>,
           TRUE, TRUE, 810, "text", TRUE, Source(2)),
      File(<< <<"d", "o", "c", "s">>, <<"m", "o", "d", "e", "l", ".", "t", "x", "t">> >>,
           TRUE, TRUE, 120, "text", TRUE, Prose(3, 39)),
      File(<< <<"s", "r", "c">>, <<"u", "t", "i", "l", ".", "r", "b">> >>,
           TRUE, TRUE, 810, "text", TRUE, Source(2)),
      File(<< <<"s", "r", "c">>, <<"u", "t", "i", "l", ".", "r", "b">> >>,
           TRUE, TRUE, 810, "text", FALSE, Source(2)),
      File(<< <<"a", "p", "p", ".", "y", "a", "m", "l">> >>,
           TRUE, TRUE, 120, "text", TRUE, Prose(3, 39)),
      File(<< <<"c", "o", "n", "f", "i", "g">>, <<"d", "b", ".", "t", "o", "m", "l">> >>,
           TRUE, TRUE, 120, "text", TRUE, Prose(3, 39)),
      File(<< <<"C", "o", "n", "f", "i", "g">>, <<"d", "b", ".", "t", "o", "m", "l">> >>,
           TRUE, TRUE, 120, "text", TRUE, Prose(3, 39)),
      File(<< <<"c", "o", "n", "f">>, <<"d", "b", ".", "i", "n", "i">> >>,
           TRUE, TRUE, 120, "text", TRUE, Prose(3, 39)),
      File(<< <<"c", "o", "n", "f", "i", "g">>, <<"e", "n", "v">>, <<"d", "b", ".", "y", "m", "l">> >>,
           TRUE, TRUE, 120, "text", TRUE, Prose(3, 39)),
      File(<< <<"d", "e", "p", "l", "o", "y">>, <<"d", "o", "c", "k", "e", "r", "-", "c", "o", "m", "p", "o", "s", "e", ".", "y", "m", "l">> >>,
           TRUE, TRUE, 120, "text", TRUE, Prose(3, 39)),
      File(<< <<"y", "a", "r", "n", ".", "l", "o", "c", "k">> >>,
           TRUE, TRUE, 120, "text", TRUE, Prose(3, 39)),
      File(<< <<"C", "a", "r", "g", "o", ".", "l", "o", "c", "k">> >>,
           TRUE, TRUE, 120, "text", TRUE, Prose(3, 39)),
      File(<< <<"G", "e", "m", "f", "i", "l", "e", ".", "l", "o", "c", "k">> >>,
           TRUE, TRUE, 120, "text", TRUE, Prose(3, 39)),
      File(<< <<"l", "o", "g", "o", ".", "p", "n", "g">> >>,
           TRUE, TRUE, 120, "text", TRUE, Prose(3, 39)),
      File(<< <<"b", "l", "o", "b", ".", "r", "b">> >>,
           TRUE, TRUE, 120, "null", TRUE, Prose(3, 39)),
      File(<< <<"l", "o", "c", "k", "e", "d", ".", "r", "b">> >>,
           TRUE, TRUE, 120, "oserror", FALSE, Prose(3, 39)),
      File(<< <<"g", "o", "n", "e", ".", "r", "b">> >>,
           TRUE, FALSE, 120, "oserror", FALSE, Prose(3, 39)),
      File(<< <<"b", "i", "g", ".", "r", "b">> >>,
           TRUE, TRUE, MaxFileSize + 1, "text", TRUE, Prose(3, 39)),
      File(<< <<"v", "e", "n", "d", "o", "r">>, <<"l", "i", "b", ".", "r", "b">> >>,
           TRUE, TRUE, 120, "text", TRUE, Prose(3, 39)),
      File(<< <<"d", "o", "c", "s">> >>,
           FALSE, TRUE, 0, "oserror", FALSE, << >>) }

\* the values of max_tokens the walk is checked with: one that forces the
\* budgeter to act on two small files, and the default
WalkBudgets ==
    {2100, 150000}

InitWalk ==
    /\ disk \in {d \in SUBSET WalkCatalogue :
                    /\ Cardinality(d) <= MaxWalkFiles
                    /\ \A e1, e2 \in d : e1.path = e2.path => e1 = e2}
    /\ max_tokens \in WalkBudgets
    /\ pc = "walk"
    /\ sniffed = {}
    /\ text_reads = {}
    /\ all_files = << >>
    /\ tier1_paths = << >>
    /\ tier2_paths = << >>
    /\ tier3_paths = << >>
    /\ tier1_files = << >>
    /\ tier2_files = << >>
    /\ tier3_file_strs = << >>
    /\ file_tree = << >>
    /\ tree_tokens = 0
    /\ tier1_tokens = 0
    /\ total_tokens = 0
    /\ manifest = << >>
    /\ NoScan
    /\ NoSide

SpecWalk ==
    InitWalk /\ [][Next]_vars

\* stat(), the sniff or read_text raises OSError for the file
IOFails(e) ==
    ~ e.stat_ok \/ e.sniff = "oserror" \/ ~ e.readable

\* the entries of WalkCatalogue on which an I/O call fails, and those the
\* walk keeps that have no config extension
IOCatalogue ==
    {e \in WalkCatalogue :
        \/ IOFails(e)
        \/ Discovered(e) /\ Lower(Suffix(Name(e.path))) \notin CONFIG_EXTENSIONS}

InitIO ==
    /\ disk \in {d \in SUBSET IOCatalogue :
                    /\ Cardinality(d) <= MaxWalkFiles
                    /\ \A e1, e2 \in d : e1.path = e2.path => e1 = e2}
    /\ max_tokens \in WalkBudgets
    /\ pc = "walk"
    /\ sniffed = {}
    /\ text_reads = {}
    /\ all_files = << >>
    /\ tier1_paths = << >>
    /\ tier2_paths = << >>
    /\ tier3_paths = << >>
    /\ tier1_files = << >>
    /\ tier2_files = << >>
    /\ tier3_file_strs = << >>
    /\ file_tree = << >>
    /\ tree_tokens = 0
    /\ tier1_tokens = 0
    /\ total_tokens = 0
    /\ manifest = << >>
    /\ NoScan
    /\ NoSide

\* prepare() is one sequential call: a step that can be taken is taken
SpecIOFair ==
    InitIO /\ [][Next]_vars /\ WF_vars(Next)

----------------------------------------------------------------------------
(* Properties of the returned manifest *)

\* prepare() has returned
Returned ==
    pc = "done"

\* the number of entries of a list that satisfy a test
Count(s, Test(_)) ==
    Cardinality({i \in 1..Len(s) : Test(s[i])})

\* how many times a path occurs in the three tier lists of the manifest
Occurrences(m, p) ==
    Count(m.tier1_files, LAMBDA f : f.path = p)
    + Count(m.tier2_files, LAMBDA f : f.path = p)
    + Count(m.tier3_files, LAMBDA q : q = p)

\* the Tier-2 records the budgeter is given and the ones it demotes
BudgetedTier2 ==
    ReadTier2Files(tier2_paths)

Demoted(m) ==
    {i \in 1..Len(BudgetedTier2) :
        \A j \in 1..Len(m.tier2_files) : m.tier2_files[j].path /= BudgetedTier2[i].path}

\* the Tier-1 records the budgeter is given
BudgetedTier1 ==
    ReadTier1Files(tier1_paths)

\* the total of step 6
InitialTotal ==
    TotalOf(EstimateTokens(BuildFileTree(RepoName, all_files)), BudgetedTier1, BudgetedTier2)

\* the total the demotion phase leaves (tier1_tokens is the sum of step 6)
AfterDemotionTotal ==
    PromptOverhead + tree_tokens + tier1_tokens + SumTokens(tier2_files, SignaturesOf)

\* the Tier-1 cost with every record truncated
TruncatedTier1Cost ==
    SumTokens([i \in 1..Len(BudgetedTier1) |->
                  [BudgetedTier1[i] EXCEPT !.content = TruncateContent(@)]], ContentOf)

\* C1: at completion, every file counted in total_files is in exactly one of
\* tier1_files, tier2_files, tier3_files, whatever the read outcomes.
C1_EveryFileInExactlyOneTier ==
    Returned =>
        /\ manifest[1].total_files = Len(all_files)
        /\ \A i \in 1..Len(all_files) :
               Occurrences(manifest[1], PathStr(all_files[i])) = 1

\* C2 as stated: if the Tier-1 cost after truncation is within max_tokens, so
\* is estimated_tokens.
C2_Tier1WithinBudgetImpliesManifestWithin ==
    Returned =>
        (TruncatedTier1Cost <= max_tokens
            => manifest[1].estimated_tokens <= max_tokens)

\* C2, amended: if prompt overhead + tree cost + Tier-1 cost after truncation
\* is within max_tokens, so is estimated_tokens.
C2_FixedPartWithinBudgetImpliesManifestWithin ==
    Returned =>
        (PromptOverhead + EstimateTokens(manifest[1].file_tree) + TruncatedTier1Cost
                <= max_tokens
            => manifest[1].estimated_tokens <= max_tokens)

\* both phases ran and the truncation brought the manifest within the budget
C2_Witness ==
    /\ Returned
    /\ PromptOverhead + tree_tokens + tier1_tokens > max_tokens
    /\ BudgetedTier2 /= << >>
    /\ PromptOverhead + tree_tokens + TruncatedTier1Cost <= max_tokens
    /\ manifest[1].tier1_files /= BudgetedTier1

\* C3: every demoted Tier-2 record has its path exactly once in tier3_files
\* and not in tier2_files; every kept one is once in tier2_files and not in
\* tier3_files; and at no point of the run is a path both in tier2_files and
\* in tier3_file_strs.
C3_DemotionIsAMove ==
    /\ \A i \in 1..Len(tier2_files) :
           \A k \in 1..Len(tier3_file_strs) : tier2_files[i].path /= tier3_file_strs[k]
    /\ Returned =>
           \A i \in 1..Len(BudgetedTier2) :
               LET p  == BudgetedTier2[i].path
                   n2 == Count(manifest[1].tier2_files, LAMBDA f : f.path = p)
                   n3 == Count(manifest[1].tier3_files, LAMBDA q : q = p)
               IN  /\ n2 + n3 = 1
                   /\ i \in Demoted(manifest[1]) => n3 = 1 /\ n2 = 0

\* some records were demoted next to some that were kept and to Tier-3 files
C3_Witness ==
    /\ Returned
    /\ Demoted(manifest[1]) /= {}
    /\ manifest[1].tier2_files /= << >>
    /\ tier3_paths /= << >>

\* C4: estimated_tokens is the overhead plus the costs of the tree, of the
\* returned Tier-1 contents and of the returned Tier-2 signatures.
C4_EstimateIsRecomputed ==
    Returned =>
        manifest[1].estimated_tokens =
            PromptOverhead + EstimateTokens(manifest[1].file_tree)
            + SumTokens(manifest[1].tier1_files, ContentOf)
            + SumTokens(manifest[1].tier2_files, SignaturesOf)

\* the truncation changed the cost of the Tier-1 content after a demotion
C4_Witness ==
    /\ Returned
    /\ Demoted(manifest[1]) /= {}
    /\ SumTokens(manifest[1].tier1_files, ContentOf) /= tier1_tokens

\* C5: no demoted Tier-2 record costs strictly more than a kept one.
C5_SmallestRemovedFirst ==
    Returned =>
        \A i \in Demoted(manifest[1]) :
            \A j \in 1..Len(manifest[1].tier2_files) :
                EstimateTokens(BudgetedTier2[i].signatures)
                    <= EstimateTokens(manifest[1].tier2_files[j].signatures)

\* C6: Tier-1 content is changed only if the total the demotion phase
\* leaves exceeds max_tokens, and then no Tier-2 record is left.
C6_TruncationOnlyAfterDemotion ==
    Returned =>
        (manifest[1].tier1_files /= BudgetedTier1
            => /\ manifest[1].tier2_files = << >>
               /\ AfterDemotionTotal > max_tokens)

\* a Tier-1 record was truncated in a repository that has Tier-2 records
C6_Witness ==
    /\ Returned
    /\ manifest[1].tier1_files /= BudgetedTier1
    /\ BudgetedTier2 /= << >>

\* the first n lines of a text
FirstLines(lines, n) ==
    SubSeq(lines, 1, IF Len(lines) < n THEN Len(lines) ELSE n)

\* C7 as stated: when the total still exceeds the limit after demotion,
\* every Tier-1 content is its first 200 lines followed by the marker.
C7_EveryTier1RecordTruncated ==
    Returned /\ AfterDemotionTotal > max_tokens =>
        /\ Len(manifest[1].tier1_files) = Len(BudgetedTier1)
        /\ \A i \in 1..Len(BudgetedTier1) :
               manifest[1].tier1_files[i].content =
                   FirstLines(BudgetedTier1[i].content, TruncateLines) \o TruncationMarker

\* C7, amended: when the total still exceeds the limit after demotion, every
\* Tier-1 content of more than 200 lines is its first 200 lines followed by
\* the marker, every other Tier-1 content is unchanged, and the returned
\* total is recomputed from these contents and the retained Tier-2 records,
\* over the budget or not.
C7_LongTier1RecordsTruncated ==
    Returned /\ AfterDemotionTotal > max_tokens =>
        /\ Len(manifest[1].tier1_files) = Len(BudgetedTier1)
        /\ \A i \in 1..Len(BudgetedTier1) :
               LET old == BudgetedTier1[i]
               IN  manifest[1].tier1_files[i] =
                       [old EXCEPT !.content =
                           IF Len(old.content) > TruncateLines
                           THEN FirstLines(old.content, TruncateLines) \o TruncationMarker
                           ELSE old.content]
        /\ manifest[1].tier2_files = tier2_files
        /\ manifest[1].estimated_tokens =
               PromptOverhead + tree_tokens
               + SumTokens(manifest[1].tier1_files, ContentOf)
               + SumTokens(tier2_files, SignaturesOf)

\* the truncation ran on a long and on a short Tier-1 record and the
\* manifest is returned over the budget
C7_Witness ==
    /\ Returned
    /\ AfterDemotionTotal > max_tokens
    /\ \E i \in 1..Len(BudgetedTier1) : Len(BudgetedTier1[i].content) > TruncateLines
    /\ \E i \in 1..Len(BudgetedTier1) : Len(BudgetedTier1[i].content) <= TruncateLines
    /\ manifest[1].estimated_tokens > max_tokens

\* C8: if the total of step 6 is within max_tokens, the manifest holds the
\* Tier-1 and Tier-2 records as read, the Tier-3 paths of the
\* classification, and that total.
C8_WithinBudgetNothingChanges ==
    Returned /\ InitialTotal <= max_tokens =>
        /\ manifest[1].tier1_files = BudgetedTier1
        /\ manifest[1].tier2_files = BudgetedTier2
        /\ Range(manifest[1].tier3_files) = {PathStr(p) : p \in Range(tier3_paths)}
        /\ Len(manifest[1].tier3_files) = Len(tier3_paths)
        /\ manifest[1].estimated_tokens = InitialTotal

\* a repository within the budget that has a Tier-1 file of more than 200
\* lines, Tier-2 records and Tier-3 files
C8_Witness ==
    /\ Returned
    /\ InitialTotal <= max_tokens
    /\ \E i \in 1..Len(BudgetedTier1) : Len(BudgetedTier1[i].content) > TruncateLines
    /\ BudgetedTier2 /= << >>
    /\ tier3_paths /= << >>

\* s is a subsequence of t
IsSubsequence(s, t) ==
    \E f \in [1..Len(s) -> 1..Len(t)] :
        /\ \A i, j \in 1..Len(s) : i < j => f[i] < f[j]
        /\ \A i \in 1..Len(s) : s[i] = t[f[i]]

\* C9: the returned tier2_files is a subsequence of the Tier-2 list as read:
\* the kept records, unchanged, in their original relative order.
C9_KeptRecordsKeepTheirOrder ==
    Returned => IsSubsequence(manifest[1].tier2_files, BudgetedTier2)

\* after a demotion, a kept record precedes a kept record that costs more
C9_Witness ==
    /\ Returned
    /\ Demoted(manifest[1]) /= {}
    /\ \E i, j \in 1..Len(manifest[1].tier2_files) :
           /\ i < j
           /\ EstimateTokens(manifest[1].tier2_files[i].signatures)
                  < EstimateTokens(manifest[1].tier2_files[j].signatures)

\* the number of the tier list a discovered path was put in by the walk
WalkedTier(p) ==
    IF p \in Range(tier1_paths) THEN 1
    ELSE IF p \in Range(tier2_paths) THEN 2
    ELSE IF p \in Range(tier3_paths) THEN 3
    ELSE 0

----------------------------------------------------------------------------
(* Properties of the walk and of the classifiers *)

\* the walk has classified the files it let through
Walked ==
    pc /= "walk"

\* the extension is one of SOURCE_EXTENSIONS
SourceExtension(rel) ==
    Lower(Suffix(Name(rel))) \in SOURCE_EXTENSIONS

\* the stem holds one of the domain keywords
KeywordStem(rel) ==
    \E kw \in TIER1_NAME_KEYWORDS : Contains(Lower(Stem(Name(rel))), kw)

\* C11: of the files the walk lets through, the Tier-2 ones are exactly
\* those with a source-code extension that none of the seven Tier-1 rules
\* matches, and the Tier-3 ones exactly those without a source-code
\* extension that no Tier-1 rule matches; so no file with a source-code
\* extension is Tier 3, and a file with a keyword in its stem and another
\* extension, matched by no other Tier-1 rule, is not Tier 1.
C11_SourceIsTier2UnlessTier1 ==
    Walked =>
        \A i \in 1..Len(all_files) :
            LET rel == all_files[i]
                rules1to5 == \/ DocRule(rel)
                             \/ EntryPointRule(rel)
                             \/ ConfigNameRule(rel)
                             \/ DockerfileRule(rel)
                             \/ ComposeRule(rel)
                rules1to7 == \/ rules1to5
                             \/ KeywordRule(rel)
                             \/ ConfigExtensionRule(rel)
            IN  /\ rel \in Range(tier2_paths) <=> (SourceExtension(rel) /\ ~ rules1to7)
                /\ rel \in Range(tier3_paths) <=> (~ rules1to7 /\ ~ SourceExtension(rel))
                /\ SourceExtension(rel) => rel \notin Range(tier3_paths)
                /\ (KeywordStem(rel) /\ ~ SourceExtension(rel)
                        /\ ~ rules1to5 /\ ~ ConfigExtensionRule(rel))
                       => rel \notin Range(tier1_paths)

\* a repository with a source file that is Tier 2 and a file with a keyword
\* in its stem and no source-code extension that is Tier 3
C11_Witness ==
    /\ Walked
    /\ \E i \in 1..Len(tier2_paths) : SourceExtension(tier2_paths[i])
    /\ \E i \in 1..Len(tier3_paths) :
           KeywordStem(tier3_paths[i]) /\ ~ SourceExtension(tier3_paths[i])

\* the extension is one of CONFIG_EXTENSIONS
ConfigExtension(rel) ==
    Lower(Suffix(Name(rel))) \in CONFIG_EXTENSIONS

\* none of the rules 1 to 6 of the decision list matches
NoRule1To6(rel) ==
    ~ \/ DocRule(rel)
      \/ EntryPointRule(rel)
      \/ ConfigNameRule(rel)
      \/ DockerfileRule(rel)
      \/ ComposeRule(rel)
      \/ KeywordRule(rel)

\* C12 as stated: a yaml/yml/toml/ini file that none of the rules 1 to 6
\* matches is Tier 1 exactly when it is at the repository root or one level
\* deep in a directory whose name is "config", letter for letter, and is
\* Tier 3 anywhere else.
C12_ConfigExtensionInRootOrLiteralConfig ==
    Walked =>
        \A i \in 1..Len(all_files) :
            LET rel == all_files[i]
                placed == \/ Len(rel) = 1
                          \/ Len(rel) = 2 /\ rel[1] = <<"c", "o", "n", "f", "i", "g">>
            IN  (ConfigExtension(rel) /\ NoRule1To6(rel)) =>
                    /\ rel \in Range(tier1_paths) <=> placed
                    /\ ~ placed => rel \in Range(tier3_paths)

\* C12: a yaml/yml/toml/ini file that none of the rules 1 to 6 matches is
\* Tier 1 exactly when it is at the repository root or one level deep in a
\* directory whose lower-cased name is "config" (config, Config, CONFIG),
\* and is Tier 3 anywhere else.
C12_ConfigExtensionInRootOrConfigAnyCase ==
    Walked =>
        \A i \in 1..Len(all_files) :
            LET rel == all_files[i]
                placed == \/ Len(rel) = 1
                          \/ /\ Len(rel) = 2
                             /\ Lower(rel[1]) = <<"c", "o", "n", "f", "i", "g">>
            IN  (ConfigExtension(rel) /\ NoRule1To6(rel)) =>
                    /\ rel \in Range(tier1_paths) <=> placed
                    /\ ~ placed => rel \in Range(tier3_paths)

\* a repository with a config-extension file in Config/ that is Tier 1 and
\* one in another directory that is Tier 3
C12_Witness ==
    /\ Walked
    /\ \E i \in 1..Len(tier1_paths) :
           /\ ConfigExtension(tier1_paths[i]) /\ NoRule1To6(tier1_paths[i])
           /\ Len(tier1_paths[i]) = 2
           /\ tier1_paths[i][1] /= <<"c", "o", "n", "f", "i", "g">>
    /\ \E i \in 1..Len(tier3_paths) :
           ConfigExtension(tier3_paths[i]) /\ NoRule1To6(tier3_paths[i])

\* the paths of the manifest's three tier lists
ManifestPaths ==
    {manifest[1].tier1_files[i].path : i \in 1..Len(manifest[1].tier1_files)}
        \cup {manifest[1].tier2_files[i].path : i \in 1..Len(manifest[1].tier2_files)}
        \cup Range(manifest[1].tier3_files)

\* C13: a file that the walk hands to _is_binary and whose name is one of
\* the dependency-lock-file names (the names of LOCK_FILES as they are
\* written, Cargo.lock, Gemfile.lock and Pipfile.lock among them) is
\* classified binary whatever its bytes, is not among the files the walk
\* keeps, and is in no tier of the manifest.
C13_LockFilesAreBinary ==
    \A e \in disk :
        (Sized(e) /\ Name(e.path) \in LOCK_FILES) =>
            /\ Walked => (IsBinary(e) /\ e.path \notin Range(all_files))
            /\ Returned => PathStr(e.path) \notin ManifestPaths

\* the paths of the records and lists prepare() holds
RecordedPaths ==
    {tier1_files[i].path : i \in 1..Len(tier1_files)}
        \cup {tier2_files[i].path : i \in 1..Len(tier2_files)}
        \cup Range(tier3_file_strs)

\* the path is in none of the lists of the walk, has no record, is in no
\* tier of the manifest, and read_text was never called on it
NowhereAndUnread(path) ==
    /\ path \notin Range(all_files)
    /\ path \notin Range(tier1_paths) \cup Range(tier2_paths) \cup Range(tier3_paths)
    /\ PathStr(path) \notin RecordedPaths
    /\ path \notin text_reads
    /\ Returned => PathStr(path) \notin ManifestPaths

\* the four reasons for which the walk takes a file for binary
BinaryReason(e) ==
    \/ Lower(Suffix(Name(e.path))) \in BINARY_EXTENSIONS
    \/ Lower(Name(e.path)) \in LOCK_FILES
    \/ e.sniff = "null"
    \/ e.sniff = "oserror"

\* C14: a file the walk hands to _is_binary that has a null byte in its
\* first 8 KiB is binary whatever its extension; and at every moment of
\* prepare(), a file that is binary by its extension, its lock-file name, a
\* null byte or an I/O error of the sniff has never had read_text called on
\* it, has no Tier-1 or Tier-2 record and is in no tier list.
C14_BinaryFilesAreNeverRead ==
    \A e \in disk :
        /\ (Sized(e) /\ e.sniff = "null" /\ Walked) => e.path \notin Range(all_files)
        /\ (Sized(e) /\ BinaryReason(e)) => NowhereAndUnread(e.path)

\* prepare() has returned for a repository with a file that has a source-code
\* extension and a null byte, which the walk sniffed, and a file it read
C14_Witness ==
    /\ Returned
    /\ \E e \in disk :
           /\ e.sniff = "null" /\ SourceExtension(e.path)
           /\ e.path \in sniffed
    /\ text_reads /= {}

\* the file is larger than max_file_size
Oversized(e) ==
    e.is_file /\ e.stat_ok /\ e.st_size > MaxFileSize

\* a component of the file's path is in the exclusion set
InSkippedDir(e) ==
    e.is_file /\ \E i \in 1..Len(e.path) : e.path[i] \in DEFAULT_SKIP_DIRS

\* the files the walk keeps of the repository without the entry e
KeptWithout(e) ==
    SelectSeq(StableSort(SetToSeq({f.path : f \in disk \ {e}}), PartsLess),
              LAMBDA p : Discovered(Entry(p)))

\* C15: a file larger than max_file_size, and a file with a path component
\* in the exclusion set, is never opened for sniffing and never read, is in
\* no list of the walk and in no tier of the manifest, and the manifest's
\* file_tree and total_files are those of the repository without the file.
C15_OversizedAndSkippedAreInvisible ==
    \A e \in disk :
        (Oversized(e) \/ InSkippedDir(e)) =>
            /\ e.path \notin sniffed
            /\ NowhereAndUnread(e.path)
            /\ Returned =>
                   /\ manifest[1].file_tree = BuildFileTree(RepoName, KeptWithout(e))
                   /\ manifest[1].total_files = Len(KeptWithout(e))

\* prepare() has returned for a repository with a file larger than
\* max_file_size and one other file, which is counted
C15_Witness ==
    /\ Returned
    /\ \E e \in disk : Oversized(e) /\ ~ InSkippedDir(e)
    /\ manifest[1].total_files = 1

\* the paths that have a Tier-1 or Tier-2 record
ContentRecordPaths ==
    {tier1_files[i].path : i \in 1..Len(tier1_files)}
        \cup {tier2_files[i].path : i \in 1..Len(tier2_files)}

\* a file on which stat(), the sniff or read_text fails never has a Tier-1
\* or Tier-2 record; every other file the walk keeps is in the tier list
\* _classify_file gives it, has, once steps 3 and 4 are done, the record
\* read from its text, and is in a tier of the manifest
IOErrorsLeaveTheOthers ==
    /\ Returned => Len(manifest) = 1
    /\ \A e \in disk :
           IF IOFails(e)
           THEN /\ PathStr(e.path) \notin ContentRecordPaths
                /\ Returned =>
                       \A i \in 1..Len(manifest[1].tier1_files) :
                           manifest[1].tier1_files[i].path /= PathStr(e.path)
                /\ Returned =>
                       \A i \in 1..Len(manifest[1].tier2_files) :
                           manifest[1].tier2_files[i].path /= PathStr(e.path)
           ELSE Discovered(e) =>
                /\ Walked =>
                       /\ ClassifyFile(e.path) = 1 <=> e.path \in Range(tier1_paths)
                       /\ ClassifyFile(e.path) = 2 <=> e.path \in Range(tier2_paths)
                       /\ ClassifyFile(e.path) = 3 <=> e.path \in Range(tier3_paths)
                /\ (pc = "tree" /\ ClassifyFile(e.path) = 1) =>
                       \E i \in 1..Len(tier1_files) :
                           /\ tier1_files[i].path = PathStr(e.path)
                           /\ tier1_files[i].content = e.content
                /\ (pc = "tree" /\ ClassifyFile(e.path) = 2) =>
                       \E i \in 1..Len(tier2_files) :
                           /\ tier2_files[i].path = PathStr(e.path)
                           /\ tier2_files[i].signatures =
                                  ExtractSignatures(e.content, DetectLanguage(e.path))
                /\ Returned => PathStr(e.path) \in ManifestPaths

\* C16: whatever file stat(), the sniff or read_text fails on, prepare()
\* goes on to return a manifest; the failing file never has a Tier-1 or
\* Tier-2 record; and every other file is classified and recorded as it is
\* in a run without the failure.
C16_IOErrorsAreNotFatal ==
    [] IOErrorsLeaveTheOthers /\ <> Returned

\* prepare() has returned for a repository with a file whose read failed and
\* another file, which has its record in the manifest
C16_Witness ==
    /\ Returned
    /\ \E e \in disk : ~ e.readable /\ e.path \in text_reads
    /\ \E e \in disk :
           /\ ~ IOFails(e)
           /\ \/ \E i \in 1..Len(manifest[1].tier1_files) :
                     manifest[1].tier1_files[i].path = PathStr(e.path)
              \/ \E i \in 1..Len(manifest[1].tier2_files) :
                     manifest[1].tier2_files[i].path = PathStr(e.path)

----------------------------------------------------------------------------
(* Lines of source text, as the scanners read them *)

\* the white space str.lstrip, str.rstrip and \s take off the modelled lines
White ==
    {" ", "\t"}

\* the length of the longest prefix of s whose characters are in the set
PrefixIn(s, set) ==
    With(s, LAMBDA v : Cardinality({k \in 1..Len(v) : \A j \in 1..k : v[j] \in set}))

\* the length of the longest suffix of s whose characters are in the set
SuffixIn(s, set) ==
    With(s, LAMBDA v : Cardinality({k \in 1..Len(v) : \A j \in k..Len(v) : v[j] \in set}))

\* str.lstrip()
LStrip(s) ==
    With(s, LAMBDA v : SubSeq(v, PrefixIn(v, White) + 1, Len(v)))

\* str.rstrip()
RStrip(s) ==
    With(s, LAMBDA v : SubSeq(v, 1, Len(v) - SuffixIn(v, White)))

\* str.strip()
Strip(s) ==
    LStrip(RStrip(s))

\* len(line) - len(line.lstrip())
IndentOf(line) ==
    With(line, LAMBDA v : Len(v) - Len(LStrip(v)))

\* str.endswith
EndsWith(s, suffix) ==
    With(s, LAMBDA v :
        /\ Len(suffix) <= Len(v)
        /\ SubSeq(v, Len(v) - Len(suffix) + 1, Len(v)) = suffix)

\* the occurrences of sub in s from the place k on that do not overlap,
\* counted from the left
RECURSIVE CountFrom(_, _, _)
CountFrom(s, sub, k) ==
    IF k + Len(sub) - 1 > Len(s) THEN 0
    ELSE IF SubSeq(s, k, k + Len(sub) - 1) = sub
         THEN 1 + CountFrom(s, sub, k + Len(sub))
         ELSE CountFrom(s, sub, k + 1)

\* str.count
CountOf(s, sub) ==
    With(s, LAMBDA v :
        IF Len(sub) = 1 THEN Cardinality({k \in 1..Len(v) : v[k] = sub[1]})
        ELSE CountFrom(v, sub, 1))

\* " " * n
Spaces(n) ==
    [k \in 1..n |-> " "]

\* s begins with the word and one white character at least: word\s+
StartsWithWord(s, word) ==
    With(s, LAMBDA v :
        /\ StartsWith(v, word)
        /\ Len(v) > Len(word)
        /\ v[Len(word) + 1] \in White)

\* s without its first n characters
Drop(s, n) ==
    With(s, LAMBDA v : SubSeq(v, n + 1, Len(v)))

\* s up to its first c, c left out; s if it has no c
BeforeFirst(s, c) ==
    With(s, LAMBDA v :
        SubSeq(v, 1, Cardinality({k \in 1..Len(v) : \A j \in 1..k : v[j] /= c})))

\* what stands for the line of an index outside the list (IndexError)
NoLine ==
    << "IndexError" >>

\* lines[k], with the indices of Python: 0 is the first line, -1 the last
LineAt(k) ==
    IF k >= 0 /\ k < Len(scan_lines) THEN scan_lines[k + 1]
    ELSE IF k < 0 /\ k >= - Len(scan_lines) THEN scan_lines[Len(scan_lines) + k + 1]
    ELSE NoLine

\* the blank-line compression every scanner does: result with "" appended
\* if it is not empty and its last line is not blank
CompressBlank(res) ==
    With(res, LAMBDA v :
        IF v /= << >> /\ Strip(v[Len(v)]) /= << >> THEN Append(v, << >>) ELSE v)

----------------------------------------------------------------------------
(* The indentation scanner: _extract_python_block and its helpers *)

\* the local variables of a call before any is assigned
NoLocals ==
    [ctx |-> "", indent |-> 0, quote |-> << >>, depth |-> 0, start |-> 0,
     inner_depth |-> 0]

\* "\n".join(result)
JoinNewline(res) ==
    With(res, LAMBDA v :
        LET join[k \in 0..Len(v)] ==
                IF k = 0 THEN << >>
                ELSE IF k = 1 THEN v[1]
                ELSE join[k - 1] \o << "\n" >> \o v[k]
        IN  join[Len(v)])

\* re.match(r"^\s*class\s+", line)
PyClassLine(line) ==
    StartsWithWord(LStrip(line), <<"c", "l", "a", "s", "s">>)

\* re.match(r"^\s*(async\s+)?def\s+", line)
PyDefLine(line) ==
    With(LStrip(line), LAMBDA stripped :
        \/ StartsWithWord(stripped, <<"d", "e", "f">>)
        \/ /\ StartsWithWord(stripped, <<"a", "s", "y", "n", "c">>)
           /\ StartsWithWord(LStrip(Drop(stripped, 5)), <<"d", "e", "f">>))

\* s without its longest prefix of characters of the set
DropWhileIn(s, set) ==
    With(s, LAMBDA v : SubSeq(v, PrefixIn(v, set) + 1, Len(v)))

\* re.match(r"^[A-Z_][A-Z0-9_]*\s*[:=]", stripped)
PyConstantLine(stripped) ==
    With(stripped, LAMBDA v :
        /\ v /= << >>
        /\ v[1] \in Range(UpperChars) \cup {"_"}
        /\ With(LStrip(DropWhileIn(Tail(v),
                    Range(UpperChars) \cup {"_"}
                        \cup {"0", "1", "2", "3", "4", "5", "6", "7", "8", "9"})),
                LAMBDA rest : rest /= << >> /\ rest[1] \in {":", "="}))

\* parent_indent of the running call of _extract_python_block
PyParentIndent ==
    scan_stack[Len(scan_stack)].parent_indent

\* the branch an iteration of the loop of _extract_python_block takes on a
\* line
PyBranch(line, parent_indent) ==
    With(LStrip(line), LAMBDA stripped :
        IF stripped = << >> THEN "blank"
        ELSE IF parent_indent >= 0 /\ IndentOf(line) <= parent_indent THEN "dedent"
        ELSE IF StartsWith(stripped, <<"i", "m", "p", "o", "r", "t", " ">>) \/ StartsWith(stripped, <<"f", "r", "o", "m", " ">>)
             THEN "keep"
        ELSE IF StartsWith(stripped, <<"@">>) THEN "keep"
        ELSE IF PyClassLine(line) THEN "class"
        ELSE IF PyDefLine(line) THEN "def"
        ELSE IF StartsWith(stripped, <<"#">>) THEN "keep"
        ELSE IF PyConstantLine(stripped) THEN "keep"
        ELSE "skip")

\* _extract_python_signatures: the first call of _extract_python_block
PyCall ==
    /\ scan_pc = "call"
    /\ scan_language = "python"
    /\ scan_pc' = "py_block"
    /\ scan_i' = 0
    /\ scan_result' = << >>
    /\ scan_stack' = << [parent_indent |-> -1, start |-> 0] >>
    /\ UNCHANGED << scan_language, scan_lines, scan_loc, scan_output >>
    /\ UNCHANGED << prep_vars, scan_extracted, side_vars >>

\* return i: the caller goes on with its loop or, when the first call
\* returns, _extract_python_signatures returns the result
PyReturn ==
    /\ scan_stack' = SubSeq(scan_stack, 1, Len(scan_stack) - 1)
    /\ IF Len(scan_stack) = 1
       THEN scan_pc' = "done" /\ scan_output' = << JoinNewline(scan_result) >>
       ELSE scan_pc' = "py_block" /\ UNCHANGED scan_output

\* the loop of _extract_python_block on a blank line
PyBlank ==
    /\ scan_pc = "py_block"
    /\ scan_i < Len(scan_lines)
    /\ PyBranch(LineAt(scan_i), PyParentIndent) = "blank"
    /\ scan_result' = CompressBlank(scan_result)
    /\ scan_i' = scan_i + 1
    /\ UNCHANGED << scan_language, scan_lines, scan_pc, scan_stack, scan_loc, scan_output >>
    /\ UNCHANGED << prep_vars, scan_extracted, side_vars >>

\* the loop of _extract_python_block at the end of the lines or on a line
\* dedented to parent_indent: return i
PyBlockEnd ==
    /\ scan_pc = "py_block"
    /\ \/ scan_i >= Len(scan_lines)
       \/ /\ scan_i < Len(scan_lines)
          /\ PyBranch(LineAt(scan_i), PyParentIndent) = "dedent"
    /\ PyReturn
    /\ UNCHANGED << scan_language, scan_lines, scan_i, scan_result, scan_loc >>
    /\ UNCHANGED << prep_vars, scan_extracted, side_vars >>

\* the loop of _extract_python_block on an import, a decorator, a comment
\* or a constant
PyKeep ==
    /\ scan_pc = "py_block"
    /\ scan_i < Len(scan_lines)
    /\ PyBranch(LineAt(scan_i), PyParentIndent) = "keep"
    /\ scan_result' = Append(scan_result, LineAt(scan_i))
    /\ scan_i' = scan_i + 1
    /\ UNCHANGED << scan_language, scan_lines, scan_pc, scan_stack, scan_loc, scan_output >>
    /\ UNCHANGED << prep_vars, scan_extracted, side_vars >>

\* the loop of _extract_python_block on a class, def or async def line: the
\* line is kept and the continuation loop begins
PyDeclaration ==
    /\ scan_pc = "py_block"
    /\ scan_i < Len(scan_lines)
    /\ PyBranch(LineAt(scan_i), PyParentIndent) \in {"class", "def"}
    /\ scan_result' = Append(scan_result, LineAt(scan_i))
    /\ scan_i' = scan_i + 1
    /\ scan_loc' = [NoLocals EXCEPT !.ctx = PyBranch(LineAt(scan_i), PyParentIndent),
                                    !.indent = IndentOf(LineAt(scan_i))]
    /\ scan_pc' = "py_continuation"
    /\ UNCHANGED << scan_language, scan_lines, scan_stack, scan_output >>
    /\ UNCHANGED << prep_vars, scan_extracted, side_vars >>

\* the loop of _extract_python_block on any other line
PySkipLine ==
    /\ scan_pc = "py_block"
    /\ scan_i < Len(scan_lines)
    /\ PyBranch(LineAt(scan_i), PyParentIndent) = "skip"
    /\ scan_i' = scan_i + 1
    /\ UNCHANGED << scan_language, scan_lines, scan_pc, scan_result, scan_stack, scan_loc,
                    scan_output >>
    /\ UNCHANGED << prep_vars, scan_extracted, side_vars >>

\* the test with i <= len(lines) for i < len(lines): the loop reads one
\* line past the end
PyContinuesPastTheEnd ==
    /\ scan_i <= Len(scan_lines)
    /\ ~ EndsWith(RStrip(LineAt(scan_i - 1)), <<":">>)

\* the test of the continuation loop of a class or def line
PyContinues ==
    /\ scan_i < Len(scan_lines)
    /\ ~ EndsWith(RStrip(LineAt(scan_i - 1)), <<":">>)

\* an iteration of the continuation loop
PyContinuation ==
    /\ scan_pc = "py_continuation"
    /\ PyContinues
    /\ scan_result' = Append(scan_result, LineAt(scan_i))
    /\ scan_i' = scan_i + 1
    /\ UNCHANGED << scan_language, scan_lines, scan_pc, scan_stack, scan_loc, scan_output >>
    /\ UNCHANGED << prep_vars, scan_extracted, side_vars >>

\* the statements after the call of _maybe_grab_docstring, which returned
\* at index at with the result res: the class body is entered by a call of
\* _extract_python_block, the body of a def is replaced by the ellipsis and
\* _skip_python_block is called
PyAfterDocstring(at, res) ==
    /\ scan_i' = at
    /\ IF scan_loc.ctx = "class"
       THEN /\ scan_result' = res
            /\ scan_stack' = Append(scan_stack, [parent_indent |-> scan_loc.indent,
                                                  start |-> at])
            /\ scan_pc' = "py_block"
       ELSE /\ scan_result' = Append(res, Spaces(scan_loc.indent + 4) \o <<".", ".", ".">>)
            /\ scan_stack' = scan_stack
            /\ scan_pc' = "py_skip"

\* the three-character quote a docstring line begins with, or << >>
PyQuoteOf(line) ==
    With(LStrip(line), LAMBDA stripped :
        IF StartsWith(stripped, <<"\"", "\"", "\"">>) \/ StartsWith(stripped, <<"'", "'", "'">>)
        THEN SubSeq(stripped, 1, 3)
        ELSE << >>)

\* the end of the continuation loop and _maybe_grab_docstring up to its
\* loop: no docstring or a docstring on one line
PyDocstring ==
    /\ scan_pc = "py_continuation"
    /\ ~ PyContinues
    /\ \/ scan_i >= Len(scan_lines)
       \/ scan_i < Len(scan_lines) /\ PyQuoteOf(LineAt(scan_i)) = << >>
       \/ /\ scan_i < Len(scan_lines) /\ PyQuoteOf(LineAt(scan_i)) /= << >>
          /\ CountOf(LStrip(LineAt(scan_i)), PyQuoteOf(LineAt(scan_i))) >= 2
    /\ IF scan_i < Len(scan_lines) /\ PyQuoteOf(LineAt(scan_i)) /= << >>
       THEN PyAfterDocstring(scan_i + 1, Append(scan_result, LineAt(scan_i)))
       ELSE PyAfterDocstring(scan_i, scan_result)
    /\ UNCHANGED << scan_language, scan_lines, scan_loc, scan_output >>
    /\ UNCHANGED << prep_vars, scan_extracted, side_vars >>

\* the end of the continuation loop and _maybe_grab_docstring on the first
\* line of a docstring of several lines
PyDocstringOpens ==
    /\ scan_pc = "py_continuation"
    /\ ~ PyContinues
    /\ scan_i < Len(scan_lines)
    /\ PyQuoteOf(LineAt(scan_i)) /= << >>
    /\ CountOf(LStrip(LineAt(scan_i)), PyQuoteOf(LineAt(scan_i))) < 2
    /\ scan_result' = Append(scan_result, LineAt(scan_i))
    /\ scan_i' = scan_i + 1
    /\ scan_loc' = [scan_loc EXCEPT !.quote = PyQuoteOf(LineAt(scan_i))]
    /\ scan_pc' = "py_docstring"
    /\ UNCHANGED << scan_language, scan_lines, scan_stack, scan_output >>
    /\ UNCHANGED << prep_vars, scan_extracted, side_vars >>

\* an iteration of the loop of _maybe_grab_docstring on a line without the
\* quote
PyDocstringLine ==
    /\ scan_pc = "py_docstring"
    /\ scan_i < Len(scan_lines)
    /\ ~ Contains(LineAt(scan_i), scan_loc.quote)
    /\ scan_result' = Append(scan_result, LineAt(scan_i))
    /\ scan_i' = scan_i + 1
    /\ UNCHANGED << scan_language, scan_lines, scan_pc, scan_stack, scan_loc, scan_output >>
    /\ UNCHANGED << prep_vars, scan_extracted, side_vars >>

\* the loop of _maybe_grab_docstring on the line with the closing quote, or
\* at the end of the lines
PyDocstringEnd ==
    /\ scan_pc = "py_docstring"
    /\ IF scan_i < Len(scan_lines)
       THEN /\ Contains(LineAt(scan_i), scan_loc.quote)
            /\ PyAfterDocstring(scan_i + 1, Append(scan_result, LineAt(scan_i)))
       ELSE PyAfterDocstring(scan_i, scan_result)
    /\ UNCHANGED << scan_language, scan_lines, scan_loc, scan_output >>
    /\ UNCHANGED << prep_vars, scan_extracted, side_vars >>

\* an iteration of the loop of _skip_python_block that goes on: a blank
\* line, or a line indented more than the def
PySkipBody ==
    /\ scan_pc = "py_skip"
    /\ scan_i < Len(scan_lines)
    /\ \/ Strip(LineAt(scan_i)) = << >>
       \/ Strip(LineAt(scan_i)) /= << >> /\ IndentOf(LineAt(scan_i)) > scan_loc.indent
    /\ scan_i' = scan_i + 1
    /\ UNCHANGED << scan_language, scan_lines, scan_pc, scan_result, scan_stack, scan_loc,
                    scan_output >>
    /\ UNCHANGED << prep_vars, scan_extracted, side_vars >>

\* _skip_python_block returns, and the loop of _extract_python_block goes on
PySkipEnd ==
    /\ scan_pc = "py_skip"
    /\ \/ scan_i >= Len(scan_lines)
       \/ /\ scan_i < Len(scan_lines)
          /\ Strip(LineAt(scan_i)) /= << >>
          /\ IndentOf(LineAt(scan_i)) <= scan_loc.indent
    /\ scan_pc' = "py_block"
    /\ UNCHANGED << scan_language, scan_lines, scan_i, scan_result, scan_stack, scan_loc,
                    scan_output >>
    /\ UNCHANGED << prep_vars, scan_extracted, side_vars >>

\* the steps of the indentation scanner
PyNext ==
    \/ PyCall
    \/ PyBlank
    \/ PyBlockEnd
    \/ PyKeep
    \/ PyDeclaration
    \/ PySkipLine
    \/ PyContinuation
    \/ PyDocstring
    \/ PyDocstringOpens
    \/ PyDocstringLine
    \/ PyDocstringEnd
    \/ PySkipBody
    \/ PySkipEnd

----------------------------------------------------------------------------
(* The brace scanner: _extract_curly_brace_signatures and its helpers *)

\* the characters \w matches
WordChars ==
    Range(UpperChars) \cup Range(LowerChars) \cup {"_"}
        \cup {"0", "1", "2", "3", "4", "5", "6", "7", "8", "9"}

\* s after word\s+ when it begins with it, s when it does not: (?:word\s+)?
AfterWord(s, word) ==
    With(s, LAMBDA v :
        IF StartsWithWord(v, word) THEN LStrip(Drop(v, Len(word))) ELSE v)

\* (?:pub(?:\(crate\))?\s+)?
AfterPub(s) ==
    With(s, LAMBDA v :
        IF StartsWithWord(v, <<"p", "u", "b", "(", "c", "r", "a", "t", "e", ")">>) THEN AfterWord(v, <<"p", "u", "b", "(", "c", "r", "a", "t", "e", ")">>)
        ELSE AfterWord(v, <<"p", "u", "b">>))

\* the modifiers of decl_re
CbModifiers ==
    {<<"p", "u", "b", "l", "i", "c">>, <<"p", "r", "i", "v", "a", "t", "e">>, <<"p", "r", "o", "t", "e", "c", "t", "e", "d">>, <<"i", "n", "t", "e", "r", "n", "a", "l">>, <<"s", "t", "a", "t", "i", "c">>, <<"f", "i", "n", "a", "l">>,
     <<"a", "b", "s", "t", "r", "a", "c", "t">>, <<"o", "v", "e", "r", "r", "i", "d", "e">>, <<"v", "i", "r", "t", "u", "a", "l">>, <<"a", "s", "y", "n", "c">>, <<"u", "n", "s", "a", "f", "e">>}

\* (?:public\s+|private\s+|...)*
RECURSIVE AfterModifiers(_)
AfterModifiers(s) ==
    With(s, LAMBDA v :
        IF \E m \in CbModifiers : StartsWithWord(v, m)
        THEN AfterModifiers(AfterWord(v, CHOOSE m \in CbModifiers : StartsWithWord(v, m)))
        ELSE v)

\* type \w+\s+(?:struct|interface|enum)\b
CbTypeLine(s) ==
    With(s, LAMBDA v :
        /\ StartsWith(v, <<"t", "y", "p", "e", " ">>)
        /\ With(DropWhileIn(Drop(v, 5), WordChars), LAMBDA named :
               /\ named /= Drop(v, 5)
               /\ named /= << >> /\ named[1] \in White
               /\ With(LStrip(named), LAMBDA kind :
                      \E k \in {<<"s", "t", "r", "u", "c", "t">>, <<"i", "n", "t", "e", "r", "f", "a", "c", "e">>, <<"e", "n", "u", "m">>} :
                          /\ StartsWith(kind, k)
                          /\ Len(kind) = Len(k) \/ kind[Len(k) + 1] \notin WordChars)))

\* decl_re.match(line)
CbDeclLine(line) ==
    With(AfterModifiers(AfterPub(LStrip(line))), LAMBDA s :
        \/ \E k \in {<<"c", "l", "a", "s", "s", " ">>, <<"i", "n", "t", "e", "r", "f", "a", "c", "e", " ">>, <<"s", "t", "r", "u", "c", "t", " ">>, <<"e", "n", "u", "m", " ">>, <<"t", "r", "a", "i", "t", " ">>, <<"i", "m", "p", "l", " ">>} :
               StartsWith(s, k)
        \/ CbTypeLine(s))

\* func_re.match(line)
CbFuncLine(line) ==
    With(AfterWord(AfterWord(AfterPub(LStrip(line)), <<"a", "s", "y", "n", "c">>), <<"u", "n", "s", "a", "f", "e">>), LAMBDA s :
        \/ /\ StartsWithWord(s, <<"f", "n">>)
           /\ LStrip(Drop(s, 2)) /= << >>
           /\ LStrip(Drop(s, 2))[1] \in WordChars
        \/ StartsWithWord(s, <<"f", "u", "n", "c">>))

\* import_keywords
CbImports(language) ==
    CASE language = "java" -> {<<"i", "m", "p", "o", "r", "t", " ">>, <<"p", "a", "c", "k", "a", "g", "e", " ">>}
      [] language = "go" -> {<<"i", "m", "p", "o", "r", "t", " ">>, <<"p", "a", "c", "k", "a", "g", "e", " ">>}
      [] language = "csharp" -> {<<"u", "s", "i", "n", "g", " ">>, <<"n", "a", "m", "e", "s", "p", "a", "c", "e", " ">>}
      [] language = "rust" -> {<<"u", "s", "e", " ">>, <<"m", "o", "d", " ">>, <<"e", "x", "t", "e", "r", "n", " ", "c", "r", "a", "t", "e", " ">>}
      [] OTHER -> {<<"i", "m", "p", "o", "r", "t", " ">>, <<"p", "a", "c", "k", "a", "g", "e", " ">>, <<"u", "s", "e", " ">>}

\* the branch an iteration of the loop of _extract_curly_brace_signatures
\* takes on a line
CbBranch(line, language) ==
    With(LStrip(line), LAMBDA stripped :
        IF stripped = << >> THEN "blank"
        ELSE IF StartsWith(stripped, <<"/", "*", "*">>) \/ StartsWith(stripped, <<"/", "*">>) THEN "comment"
        ELSE IF StartsWith(stripped, <<"/", "/">>) \/ StartsWith(stripped, <<"#">>) THEN "keep"
        ELSE IF StartsWith(stripped, <<"@">>) \/ StartsWith(stripped, <<"#", "[">>) THEN "keep"
        ELSE IF \E kw \in CbImports(language) : StartsWith(stripped, kw) THEN "import"
        ELSE IF CbFuncLine(line) THEN "func"
        ELSE IF CbDeclLine(line) THEN "decl"
        ELSE "skip")

\* the branch an iteration of the loop of _extract_member_signatures takes
\* on a line at a brace depth
MbBranch(line, brace_depth) ==
    With(LStrip(line), LAMBDA stripped :
        IF brace_depth = 1 /\ StartsWith(stripped, <<"}">>) THEN "close"
        ELSE IF brace_depth /= 1 THEN "nested"
        ELSE IF StartsWith(stripped, <<"@">>) \/ StartsWith(stripped, <<"#", "[">>) THEN "keep"
        ELSE IF StartsWith(stripped, <<"/", "/">>) \/ StartsWith(stripped, <<"#">>) THEN "keep"
        ELSE IF StartsWith(stripped, <<"/", "*", "*">>) \/ StartsWith(stripped, <<"/", "*">>) THEN "comment"
        ELSE IF CountOf(line, <<"{">>) > 0 THEN "method"
        ELSE "keep")

\* line.count("{") - line.count("}")
BraceBalance(line) ==
    With(line, LAMBDA v : CountOf(v, <<"{">>) - CountOf(v, <<"}">>))

\* f"{' ' * (indent + 2)}// ..."
CbMarker(line) ==
    Spaces(IndentOf(line) + 2) \o <<"/", "/", " ", ".", ".", ".">>

\* _extract_curly_brace_signatures with a result list that is kept from
\* one call to the next
CbCallSharedResult ==
    /\ scan_pc = "call"
    /\ scan_language \in {"java", "go", "csharp", "rust"}
    /\ scan_pc' = "cb_top"
    /\ scan_i' = 0
    /\ UNCHANGED << scan_language, scan_lines, scan_result, scan_stack, scan_loc, scan_output >>
    /\ UNCHANGED << prep_vars, scan_extracted, side_vars >>

\* _extract_curly_brace_signatures begins
CbCall ==
    /\ scan_pc = "call"
    /\ scan_language \in {"java", "go", "csharp", "rust"}
    /\ scan_pc' = "cb_top"
    /\ scan_i' = 0
    /\ scan_result' = << >>
    /\ UNCHANGED << scan_language, scan_lines, scan_stack, scan_loc, scan_output >>
    /\ UNCHANGED << prep_vars, scan_extracted, side_vars >>

\* the loop of _extract_curly_brace_signatures ends: return "\n".join(result)
CbReturn ==
    /\ scan_pc = "cb_top"
    /\ scan_i >= Len(scan_lines)
    /\ scan_pc' = "done"
    /\ scan_output' = << JoinNewline(scan_result) >>
    /\ UNCHANGED << scan_language, scan_lines, scan_i, scan_result, scan_stack, scan_loc >>
    /\ UNCHANGED << prep_vars, scan_extracted, side_vars >>

\* the loop on a blank line
CbBlank ==
    /\ scan_pc = "cb_top"
    /\ scan_i < Len(scan_lines)
    /\ CbBranch(LineAt(scan_i), scan_language) = "blank"
    /\ scan_result' = CompressBlank(scan_result)
    /\ scan_i' = scan_i + 1
    /\ UNCHANGED << scan_language, scan_lines, scan_pc, scan_stack, scan_loc, scan_output >>
    /\ UNCHANGED << prep_vars, scan_extracted, side_vars >>

\* the loop on a line comment or an annotation
CbKeep ==
    /\ scan_pc = "cb_top"
    /\ scan_i < Len(scan_lines)
    /\ CbBranch(LineAt(scan_i), scan_language) = "keep"
    /\ scan_result' = Append(scan_result, LineAt(scan_i))
    /\ scan_i' = scan_i + 1
    /\ UNCHANGED << scan_language, scan_lines, scan_pc, scan_stack, scan_loc, scan_output >>
    /\ UNCHANGED << prep_vars, scan_extracted, side_vars >>

\* the loop on any other line
CbSkipLine ==
    /\ scan_pc = "cb_top"
    /\ scan_i < Len(scan_lines)
    /\ CbBranch(LineAt(scan_i), scan_language) = "skip"
    /\ scan_i' = scan_i + 1
    /\ UNCHANGED << scan_language, scan_lines, scan_pc, scan_result, scan_stack, scan_loc,
                    scan_output >>
    /\ UNCHANGED << prep_vars, scan_extracted, side_vars >>

\* the first line of a block comment, in the loop of
\* _extract_curly_brace_signatures or of _extract_member_signatures (from):
\* the comment loop keeps it and goes on unless the line has the "*/"
BlockCommentOpens(from) ==
    /\ scan_result' = Append(scan_result, LineAt(scan_i))
    /\ scan_i' = scan_i + 1
    /\ IF Contains(LineAt(scan_i), <<"*", "/">>)
       THEN UNCHANGED << scan_pc, scan_loc >>
       ELSE /\ scan_pc' = "cb_comment"
            /\ scan_loc' = [scan_loc EXCEPT !.ctx = from]

\* the loop on the first line of a block comment
CbComment ==
    /\ scan_pc = "cb_top"
    /\ scan_i < Len(scan_lines)
    /\ CbBranch(LineAt(scan_i), scan_language) = "comment"
    /\ BlockCommentOpens("cb_top")
    /\ UNCHANGED << scan_language, scan_lines, scan_stack, scan_output >>
    /\ UNCHANGED << prep_vars, scan_extracted, side_vars >>

\* an iteration of the comment loop: the line is kept, and the loop ends
\* after the line that has the "*/"
CbCommentLine ==
    /\ scan_pc = "cb_comment"
    /\ scan_i < Len(scan_lines)
    /\ scan_result' = Append(scan_result, LineAt(scan_i))
    /\ scan_i' = scan_i + 1
    /\ scan_pc' = IF Contains(LineAt(scan_i), <<"*", "/">>) THEN scan_loc.ctx ELSE scan_pc
    /\ UNCHANGED << scan_language, scan_lines, scan_stack, scan_loc, scan_output >>
    /\ UNCHANGED << prep_vars, scan_extracted, side_vars >>

\* the comment loop at the end of the lines
CbCommentEnd ==
    /\ scan_pc = "cb_comment"
    /\ scan_i >= Len(scan_lines)
    /\ scan_pc' = scan_loc.ctx
    /\ UNCHANGED << scan_language, scan_lines, scan_i, scan_result, scan_stack, scan_loc,
                    scan_output >>
    /\ UNCHANGED << prep_vars, scan_extracted, side_vars >>

\* the loop on an import, package or use line; "import (" of Go opens a
\* block that is kept up to its ")"
CbImport ==
    /\ scan_pc = "cb_top"
    /\ scan_i < Len(scan_lines)
    /\ CbBranch(LineAt(scan_i), scan_language) = "import"
    /\ scan_result' = Append(scan_result, LineAt(scan_i))
    /\ scan_i' = scan_i + 1
    /\ scan_pc' = IF /\ scan_language = "go"
                     /\ Contains(LineAt(scan_i), <<"(">>)
                     /\ ~ Contains(LineAt(scan_i), <<")">>)
                  THEN "cb_import" ELSE scan_pc
    /\ UNCHANGED << scan_language, scan_lines, scan_stack, scan_loc, scan_output >>
    /\ UNCHANGED << prep_vars, scan_extracted, side_vars >>

\* an iteration of the loop of the import block
CbImportLine ==
    /\ scan_pc = "cb_import"
    /\ scan_i < Len(scan_lines)
    /\ scan_result' = Append(scan_result, LineAt(scan_i))
    /\ scan_i' = scan_i + 1
    /\ scan_pc' = IF Contains(LineAt(scan_i), <<")">>) THEN "cb_top" ELSE scan_pc
    /\ UNCHANGED << scan_language, scan_lines, scan_stack, scan_loc, scan_output >>
    /\ UNCHANGED << prep_vars, scan_extracted, side_vars >>

\* the loop of the import block at the end of the lines
CbImportEnd ==
    /\ scan_pc = "cb_import"
    /\ scan_i >= Len(scan_lines)
    /\ scan_pc' = "cb_top"
    /\ UNCHANGED << scan_language, scan_lines, scan_i, scan_result, scan_stack, scan_loc,
                    scan_output >>
    /\ UNCHANGED << prep_vars, scan_extracted, side_vars >>

\* the loop on a func or fn line: the line is kept
CbFunc ==
    /\ scan_pc = "cb_top"
    /\ scan_i < Len(scan_lines)
    /\ CbBranch(LineAt(scan_i), scan_language) = "func"
    /\ scan_result' = Append(scan_result, LineAt(scan_i))
    /\ scan_i' = scan_i + 1
    /\ scan_loc' = [NoLocals EXCEPT !.start = scan_i]
    /\ scan_pc' = "cb_signature"
    /\ UNCHANGED << scan_language, scan_lines, scan_stack, scan_output >>
    /\ UNCHANGED << prep_vars, scan_extracted, side_vars >>

\* an iteration of the loop that keeps the lines of the signature up to
\* the "{"
CbSignatureLine ==
    /\ scan_pc = "cb_signature"
    /\ scan_i < Len(scan_lines)
    /\ ~ Contains(LineAt(scan_i - 1), <<"{">>)
    /\ scan_result' = Append(scan_result, LineAt(scan_i))
    /\ scan_i' = scan_i + 1
    /\ UNCHANGED << scan_language, scan_lines, scan_pc, scan_stack, scan_loc, scan_output >>
    /\ UNCHANGED << prep_vars, scan_extracted, side_vars >>

\* the end of the signature: the marker is appended and
\* _skip_brace_block_from is called
CbSignatureEnd ==
    /\ scan_pc = "cb_signature"
    /\ scan_i >= Len(scan_lines) \/ Contains(LineAt(scan_i - 1), <<"{">>)
    /\ scan_result' = Append(scan_result, CbMarker(LineAt(scan_loc.start)))
    /\ scan_loc' = [scan_loc EXCEPT !.depth = 1]
    /\ scan_pc' = "cb_skip"
    /\ UNCHANGED << scan_language, scan_lines, scan_i, scan_stack, scan_output >>
    /\ UNCHANGED << prep_vars, scan_extracted, side_vars >>

\* an iteration of the loop of _skip_brace_block_from
CbSkipBody ==
    /\ scan_pc = "cb_skip"
    /\ scan_i < Len(scan_lines)
    /\ scan_loc.depth > 0
    /\ scan_loc' = [scan_loc EXCEPT !.depth = @ + BraceBalance(LineAt(scan_i))]
    /\ scan_i' = scan_i + 1
    /\ UNCHANGED << scan_language, scan_lines, scan_pc, scan_result, scan_stack, scan_output >>
    /\ UNCHANGED << prep_vars, scan_extracted, side_vars >>

\* _skip_brace_block_from returns
CbSkipEnd ==
    /\ scan_pc = "cb_skip"
    /\ scan_i >= Len(scan_lines) \/ scan_loc.depth <= 0
    /\ scan_pc' = "cb_top"
    /\ UNCHANGED << scan_language, scan_lines, scan_i, scan_result, scan_stack, scan_loc,
                    scan_output >>
    /\ UNCHANGED << prep_vars, scan_extracted, side_vars >>

\* the call _extract_member_signatures(lines, start, result, language)
MbCall(start) ==
    /\ scan_i' = start
    /\ scan_loc' = [NoLocals EXCEPT !.depth = 1, !.start = start]
    /\ scan_pc' = "cb_member"

\* the loop on a class, interface, struct, enum, trait or impl line: with
\* its "{" the members follow, without it the lines up to the "{" are kept
CbDecl ==
    /\ scan_pc = "cb_top"
    /\ scan_i < Len(scan_lines)
    /\ CbBranch(LineAt(scan_i), scan_language) = "decl"
    /\ scan_result' = Append(scan_result, LineAt(scan_i))
    /\ IF Contains(LineAt(scan_i), <<"{">>)
       THEN MbCall(scan_i + 1)
       ELSE /\ scan_i' = scan_i + 1
            /\ scan_pc' = "cb_decl"
            /\ UNCHANGED scan_loc
    /\ UNCHANGED << scan_language, scan_lines, scan_stack, scan_output >>
    /\ UNCHANGED << prep_vars, scan_extracted, side_vars >>

\* an iteration of the loop that keeps the lines of a declaration up to the
\* line with the "{"
CbDeclContinues ==
    /\ scan_pc = "cb_decl"
    /\ scan_i < Len(scan_lines)
    /\ ~ Contains(LineAt(scan_i), <<"{">>)
    /\ scan_result' = Append(scan_result, LineAt(scan_i))
    /\ scan_i' = scan_i + 1
    /\ UNCHANGED << scan_language, scan_lines, scan_pc, scan_stack, scan_loc, scan_output >>
    /\ UNCHANGED << prep_vars, scan_extracted, side_vars >>

\* the line with the "{" of a declaration: it is kept and the members
\* follow
CbDeclOpens ==
    /\ scan_pc = "cb_decl"
    /\ scan_i < Len(scan_lines)
    /\ Contains(LineAt(scan_i), <<"{">>)
    /\ scan_result' = Append(scan_result, LineAt(scan_i))
    /\ MbCall(scan_i + 1)
    /\ UNCHANGED << scan_language, scan_lines, scan_stack, scan_output >>
    /\ UNCHANGED << prep_vars, scan_extracted, side_vars >>

\* a declaration that reaches the end of the lines without a "{"
CbDeclEnd ==
    /\ scan_pc = "cb_decl"
    /\ scan_i >= Len(scan_lines)
    /\ scan_pc' = "cb_top"
    /\ UNCHANGED << scan_language, scan_lines, scan_i, scan_result, scan_stack, scan_loc,
                    scan_output >>
    /\ UNCHANGED << prep_vars, scan_extracted, side_vars >>

\* the loop of _extract_member_signatures ends: return i
MbReturn ==
    /\ scan_pc = "cb_member"
    /\ scan_i >= Len(scan_lines) \/ scan_loc.depth <= 0
    /\ scan_pc' = "cb_top"
    /\ UNCHANGED << scan_language, scan_lines, scan_i, scan_result, scan_stack, scan_loc,
                    scan_output >>
    /\ UNCHANGED << prep_vars, scan_extracted, side_vars >>

\* the loop of _extract_member_signatures may go on
MbLoops ==
    /\ scan_pc = "cb_member"
    /\ scan_i < Len(scan_lines)
    /\ scan_loc.depth > 0

\* the loop on a line that begins with "}" at depth 1
MbClose ==
    /\ MbLoops
    /\ MbBranch(LineAt(scan_i), scan_loc.depth) = "close"
    /\ scan_result' = Append(scan_result, LineAt(scan_i))
    /\ scan_loc' = [scan_loc EXCEPT !.depth = @ + BraceBalance(LineAt(scan_i))]
    /\ scan_i' = scan_i + 1
    /\ UNCHANGED << scan_language, scan_lines, scan_pc, scan_stack, scan_output >>
    /\ UNCHANGED << prep_vars, scan_extracted, side_vars >>

\* the loop on an annotation, a line comment or a line without "{" at
\* depth 1
MbKeep ==
    /\ MbLoops
    /\ MbBranch(LineAt(scan_i), scan_loc.depth) = "keep"
    /\ scan_result' = Append(scan_result, LineAt(scan_i))
    /\ scan_i' = scan_i + 1
    /\ UNCHANGED << scan_language, scan_lines, scan_pc, scan_stack, scan_loc, scan_output >>
    /\ UNCHANGED << prep_vars, scan_extracted, side_vars >>

\* the loop on the first line of a block comment at depth 1
MbComment ==
    /\ MbLoops
    /\ MbBranch(LineAt(scan_i), scan_loc.depth) = "comment"
    /\ BlockCommentOpens("cb_member")
    /\ UNCHANGED << scan_language, scan_lines, scan_stack, scan_output >>
    /\ UNCHANGED << prep_vars, scan_extracted, side_vars >>

\* the loop on a line with a "{" at depth 1: the line is kept as a
\* signature, the marker follows and the body is skipped
MbMethod ==
    /\ MbLoops
    /\ MbBranch(LineAt(scan_i), scan_loc.depth) = "method"
    /\ scan_result' = Append(Append(scan_result, LineAt(scan_i)), CbMarker(LineAt(scan_i)))
    /\ scan_loc' = [scan_loc EXCEPT !.inner_depth = BraceBalance(LineAt(scan_i))]
    /\ scan_i' = scan_i + 1
    /\ scan_pc' = "cb_inner"
    /\ UNCHANGED << scan_language, scan_lines, scan_stack, scan_output >>
    /\ UNCHANGED << prep_vars, scan_extracted, side_vars >>

\* an iteration of the loop that skips the body of a method
MbInnerLine ==
    /\ scan_pc = "cb_inner"
    /\ scan_i < Len(scan_lines)
    /\ scan_loc.inner_depth > 0
    /\ scan_loc' = [scan_loc EXCEPT !.inner_depth = @ + BraceBalance(LineAt(scan_i))]
    /\ scan_i' = scan_i + 1
    /\ UNCHANGED << scan_language, scan_lines, scan_pc, scan_result, scan_stack, scan_output >>
    /\ UNCHANGED << prep_vars, scan_extracted, side_vars >>

\* the body of a method is skipped
MbInnerEnd ==
    /\ scan_pc = "cb_inner"
    /\ scan_i >= Len(scan_lines) \/ scan_loc.inner_depth <= 0
    /\ scan_pc' = "cb_member"
    /\ UNCHANGED << scan_language, scan_lines, scan_i, scan_result, scan_stack, scan_loc,
                    scan_output >>
    /\ UNCHANGED << prep_vars, scan_extracted, side_vars >>

\* the loop on a line of a nested block
MbNested ==
    /\ MbLoops
    /\ MbBranch(LineAt(scan_i), scan_loc.depth) = "nested"
    /\ scan_loc' = [scan_loc EXCEPT !.depth = @ + BraceBalance(LineAt(scan_i))]
    /\ scan_i' = scan_i + 1
    /\ UNCHANGED << scan_language, scan_lines, scan_pc, scan_result, scan_stack, scan_output >>
    /\ UNCHANGED << prep_vars, scan_extracted, side_vars >>

\* the steps of the brace scanner
CbNext ==
    \/ CbCall
    \/ CbReturn
    \/ CbBlank
    \/ CbKeep
    \/ CbSkipLine
    \/ CbComment
    \/ CbCommentLine
    \/ CbCommentEnd
    \/ CbImport
    \/ CbImportLine
    \/ CbImportEnd
    \/ CbFunc
    \/ CbSignatureLine
    \/ CbSignatureEnd
    \/ CbSkipBody
    \/ CbSkipEnd
    \/ CbDecl
    \/ CbDeclContinues
    \/ CbDeclOpens
    \/ CbDeclEnd
    \/ MbReturn
    \/ MbClose
    \/ MbKeep
    \/ MbComment
    \/ MbMethod
    \/ MbInnerLine
    \/ MbInnerEnd
    \/ MbNested

----------------------------------------------------------------------------
(* The nested-body scanner: _extract_js_ts_level *)

\* the modifiers of the method and field patterns
JsModifiers ==
    {<<"p", "u", "b", "l", "i", "c">>, <<"p", "r", "i", "v", "a", "t", "e">>, <<"p", "r", "o", "t", "e", "c", "t", "e", "d">>, <<"s", "t", "a", "t", "i", "c">>, <<"a", "b", "s", "t", "r", "a", "c", "t">>, <<"o", "v", "e", "r", "r", "i", "d", "e">>, <<"r", "e", "a", "d", "o", "n", "l", "y">>}

\* (?:constructor|\w+)\s*(?:<[^>]*>)?\s*\( matches at the beginning of s
JsNamedCall(s) ==
    With(s, LAMBDA v :
        /\ v /= << >> /\ v[1] \in WordChars
        /\ With(LStrip(DropWhileIn(v, WordChars)), LAMBDA named :
               IF StartsWith(named, <<"<">>) /\ Contains(named, <<">">>)
               THEN StartsWith(LStrip(Drop(named, Len(BeforeFirst(named, ">")) + 1)), <<"(">>)
               ELSE StartsWith(named, <<"(">>)))

\* (?:async\s+)?(?:get\s+|set\s+)?(?:constructor|\w+)... matches at the
\* beginning of s: a word that may be taken as a keyword may be the name
JsMethodTail(s) ==
    With(s, LAMBDA v :
        \E a \in {v} \cup {AfterWord(v, <<"a", "s", "y", "n", "c">>)} :
            \E g \in {a, AfterWord(a, <<"g", "e", "t">>), AfterWord(a, <<"s", "e", "t">>)} :
                JsNamedCall(g))

\* method_match: the method pattern matches at the beginning of s, which
\* has no leading white space
RECURSIVE JsMethodLine(_)
JsMethodLine(s) ==
    With(s, LAMBDA v :
        \/ JsMethodTail(v)
        \/ \E m \in JsModifiers : StartsWithWord(v, m) /\ JsMethodLine(AfterWord(v, m)))

\* the field pattern matches at the beginning of s
RECURSIVE JsFieldLine(_)
JsFieldLine(s) ==
    With(s, LAMBDA v :
        \/ /\ v /= << >> /\ v[1] \in WordChars
           /\ With(LStrip(DropWhileIn(v, WordChars)), LAMBDA named :
                  With(IF named /= << >> /\ named[1] \in {"?", "!"}
                       THEN LStrip(Tail(named)) ELSE named,
                       LAMBDA marked : marked /= << >> /\ marked[1] \in {":", "=", ";"}))
        \/ \E m \in JsModifiers : StartsWithWord(v, m) /\ JsFieldLine(AfterWord(v, m)))

\* the import pattern matches at the beginning of s
JsImportLineOf(s) ==
    With(s, LAMBDA v :
        \/ StartsWith(v, <<"i", "m", "p", "o", "r", "t", " ">>)
        \/ StartsWith(v, <<"e", "x", "p", "o", "r", "t", " ", "{">>)
        \/ StartsWith(v, <<"e", "x", "p", "o", "r", "t", " ", "*", " ">>)
        \/ \E k \in {<<"c", "o", "n", "s", "t", " ">>, <<"l", "e", "t", " ">>, <<"v", "a", "r", " ">>} :
               /\ StartsWith(v, k)
               /\ With(Drop(v, Len(k)), LAMBDA rest :
                      /\ rest /= << >> /\ rest[1] \in WordChars
                      /\ StartsWith(DropWhileIn(rest, WordChars), <<" ", "=", " ", "r", "e", "q", "u", "i", "r", "e", "(">>)))

\* s after (export\s+)?(default\s+)?
AfterExport(s) ==
    AfterWord(AfterWord(s, <<"e", "x", "p", "o", "r", "t">>), <<"d", "e", "f", "a", "u", "l", "t">>)

\* ^\s*export\s+ matches and ^\s*export\s+(default\s+)?(class |...) does not
JsExportLine(s) ==
    With(s, LAMBDA v :
        /\ StartsWithWord(v, <<"e", "x", "p", "o", "r", "t">>)
        /\ With(AfterExport(v), LAMBDA rest :
               ~ \E k \in {<<"c", "l", "a", "s", "s", " ">>, <<"f", "u", "n", "c", "t", "i", "o", "n", " ">>, <<"a", "s", "y", "n", "c", " ">>, <<"i", "n", "t", "e", "r", "f", "a", "c", "e", " ">>, <<"t", "y", "p", "e", " ">>, <<"e", "n", "u", "m", " ">>} :
                   StartsWith(rest, k)))

\* (function\s+\w+|enum\s+\w+) matches at the beginning of s
JsFunctionName(s) ==
    With(s, LAMBDA v :
        \E k \in {<<"f", "u", "n", "c", "t", "i", "o", "n">>, <<"e", "n", "u", "m">>} :
            /\ StartsWithWord(v, k)
            /\ With(AfterWord(v, k), LAMBDA rest : rest /= << >> /\ rest[1] \in WordChars))

\* the const, let and var pattern matches at the beginning of s
JsConstLine(s) ==
    With(AfterWord(s, <<"e", "x", "p", "o", "r", "t">>), LAMBDA v :
        \E k \in {<<"c", "o", "n", "s", "t">>, <<"l", "e", "t">>, <<"v", "a", "r">>} :
            /\ StartsWithWord(v, k)
            /\ With(AfterWord(v, k), LAMBDA rest : rest /= << >> /\ rest[1] \in WordChars))

\* the branch an iteration of the loop of _extract_js_ts_level takes on a
\* line
JsBranch(line, in_class) ==
    With(LStrip(line), LAMBDA stripped :
        IF stripped = << >> THEN "blank"
        ELSE IF in_class /\ StartsWith(stripped, <<"}">>) THEN "close"
        ELSE IF StartsWith(stripped, <<"/", "*", "*">>) \/ StartsWith(stripped, <<"/", "*">>) THEN "comment"
        ELSE IF StartsWith(stripped, <<"/", "/">>) THEN "keep"
        ELSE IF StartsWith(stripped, <<"@">>) THEN "keep"
        ELSE IF in_class
             THEN IF JsMethodLine(stripped) THEN "method"
                  ELSE IF JsFieldLine(stripped) THEN "keep"
                  ELSE "skip"
        ELSE IF JsImportLineOf(stripped) THEN "import"
        ELSE IF JsExportLine(stripped) THEN "keep"
        ELSE IF StartsWithWord(AfterWord(AfterExport(stripped), <<"a", "b", "s", "t", "r", "a", "c", "t">>), <<"c", "l", "a", "s", "s">>)
             THEN "class"
        ELSE IF \E k \in {<<"i", "n", "t", "e", "r", "f", "a", "c", "e", " ">>, <<"t", "y", "p", "e", " ">>} : StartsWith(AfterExport(stripped), k)
             THEN "interface"
        ELSE IF JsFunctionName(AfterWord(AfterExport(stripped), <<"a", "s", "y", "n", "c">>)) THEN "function"
        ELSE IF JsConstLine(stripped) THEN "const"
        ELSE "skip")

\* in_class of the running call of _extract_js_ts_level
JsInClass ==
    scan_stack[Len(scan_stack)].in_class

\* the loop of _extract_js_ts_level is at a line
JsLoops ==
    /\ scan_pc = "js_level"
    /\ scan_i < Len(scan_lines)

\* _extract_js_ts_signatures: the first call of _extract_js_ts_level
JsCall ==
    /\ scan_pc = "call"
    /\ scan_language \in {"javascript", "typescript"}
    /\ scan_pc' = "js_level"
    /\ scan_i' = 0
    /\ scan_result' = << >>
    /\ scan_stack' = << [in_class |-> FALSE, start |-> 0] >>
    /\ UNCHANGED << scan_language, scan_lines, scan_loc, scan_output >>
    /\ UNCHANGED << prep_vars, scan_extracted, side_vars >>

\* return at: the caller goes on with its loop or, when the first call
\* returns, _extract_js_ts_signatures returns the result
JsReturn(at) ==
    /\ scan_i' = at
    /\ scan_stack' = SubSeq(scan_stack, 1, Len(scan_stack) - 1)
    /\ IF Len(scan_stack) = 1
       THEN scan_pc' = "done" /\ scan_output' = << JoinNewline(scan_result) >>
       ELSE scan_pc' = "js_level" /\ UNCHANGED scan_output

\* the loop ends at the end of the lines: return i
JsLevelEnd ==
    /\ scan_pc = "js_level"
    /\ scan_i >= Len(scan_lines)
    /\ JsReturn(scan_i)
    /\ UNCHANGED << scan_language, scan_lines, scan_result, scan_loc >>
    /\ UNCHANGED << prep_vars, scan_extracted, side_vars >>

\* the loop on a blank line
JsBlank ==
    /\ JsLoops
    /\ JsBranch(LineAt(scan_i), JsInClass) = "blank"
    /\ scan_result' = CompressBlank(scan_result)
    /\ scan_i' = scan_i + 1
    /\ UNCHANGED << scan_language, scan_lines, scan_pc, scan_stack, scan_loc, scan_output >>
    /\ UNCHANGED << prep_vars, scan_extracted, side_vars >>

\* the loop in a class body on a line that begins with "}": the line is
\* kept, return i + 1
JsClassClose ==
    /\ JsLoops
    /\ JsBranch(LineAt(scan_i), JsInClass) = "close"
    /\ scan_result' = Append(scan_result, LineAt(scan_i))
    /\ JsReturn(scan_i + 1)
    /\ UNCHANGED << scan_language, scan_lines, scan_loc >>
    /\ UNCHANGED << prep_vars, scan_extracted, side_vars >>

\* the loop on the first line of a block comment: the comment loop keeps
\* it and goes on unless the line has the "*/"
JsComment ==
    /\ JsLoops
    /\ JsBranch(LineAt(scan_i), JsInClass) = "comment"
    /\ scan_result' = Append(scan_result, LineAt(scan_i))
    /\ scan_i' = scan_i + 1
    /\ scan_pc' = IF Contains(LineAt(scan_i), <<"*", "/">>) THEN scan_pc ELSE "js_comment"
    /\ UNCHANGED << scan_language, scan_lines, scan_stack, scan_loc, scan_output >>
    /\ UNCHANGED << prep_vars, scan_extracted, side_vars >>

\* an iteration of the comment loop
JsCommentLine ==
    /\ scan_pc = "js_comment"
    /\ scan_i < Len(scan_lines)
    /\ scan_result' = Append(scan_result, LineAt(scan_i))
    /\ scan_i' = scan_i + 1
    /\ scan_pc' = IF Contains(LineAt(scan_i), <<"*", "/">>) THEN "js_level" ELSE scan_pc
    /\ UNCHANGED << scan_language, scan_lines, scan_stack, scan_loc, scan_output >>
    /\ UNCHANGED << prep_vars, scan_extracted, side_vars >>

\* the comment loop at the end of the lines
JsCommentEnd ==
    /\ scan_pc = "js_comment"
    /\ scan_i >= Len(scan_lines)
    /\ scan_pc' = "js_level"
    /\ UNCHANGED << scan_language, scan_lines, scan_i, scan_result, scan_stack, scan_loc,
                    scan_output >>
    /\ UNCHANGED << prep_vars, scan_extracted, side_vars >>

\* the loop on a line comment, a decorator, a field of a class or an
\* export that declares nothing
JsKeep ==
    /\ JsLoops
    /\ JsBranch(LineAt(scan_i), JsInClass) = "keep"
    /\ scan_result' = Append(scan_result, LineAt(scan_i))
    /\ scan_i' = scan_i + 1
    /\ UNCHANGED << scan_language, scan_lines, scan_pc, scan_stack, scan_loc, scan_output >>
    /\ UNCHANGED << prep_vars, scan_extracted, side_vars >>

\* the loop on any other line
JsSkipLine ==
    /\ JsLoops
    /\ JsBranch(LineAt(scan_i), JsInClass) = "skip"
    /\ scan_i' = scan_i + 1
    /\ UNCHANGED << scan_language, scan_lines, scan_pc, scan_result, scan_stack, scan_loc,
                    scan_output >>
    /\ UNCHANGED << prep_vars, scan_extracted, side_vars >>

\* the loop on the line of a method, a class, or a function or enum: the
\* line is kept and the loop of its continuation lines begins
JsDeclaration ==
    /\ JsLoops
    /\ JsBranch(LineAt(scan_i), JsInClass) \in {"method", "class", "function"}
    /\ scan_result' = Append(scan_result, LineAt(scan_i))
    /\ scan_i' = scan_i + 1
    /\ scan_loc' = [NoLocals EXCEPT !.ctx = JsBranch(LineAt(scan_i), JsInClass),
                                    !.start = scan_i]
    /\ scan_pc' = "js_continuation"
    /\ UNCHANGED << scan_language, scan_lines, scan_stack, scan_output >>
    /\ UNCHANGED << prep_vars, scan_extracted, side_vars >>

\* the test of the loop of the continuation lines: up to the line with the
\* "{", and for a method up to the line with the "{" or a ";"
JsContinues ==
    /\ scan_i < Len(scan_lines)
    /\ ~ Contains(LineAt(scan_i - 1), <<"{">>)
    /\ scan_loc.ctx = "method" => ~ Contains(LineAt(scan_i - 1), <<";">>)

\* an iteration of the loop of the continuation lines
JsContinuation ==
    /\ scan_pc = "js_continuation"
    /\ JsContinues
    /\ scan_result' = Append(scan_result, LineAt(scan_i))
    /\ scan_i' = scan_i + 1
    /\ UNCHANGED << scan_language, scan_lines, scan_pc, scan_stack, scan_loc, scan_output >>
    /\ UNCHANGED << prep_vars, scan_extracted, side_vars >>

\* after the continuation lines: the body of a class is read by a call of
\* _extract_js_ts_level, the body of a method, function or enum whose last
\* line has the "{" is replaced by the marker and skipped
JsAfterSignature ==
    /\ scan_pc = "js_continuation"
    /\ ~ JsContinues
    /\ IF scan_loc.ctx = "class"
       THEN /\ scan_stack' = Append(scan_stack, [in_class |-> TRUE, start |-> scan_i])
            /\ scan_pc' = "js_level"
            /\ UNCHANGED << scan_result, scan_loc >>
       ELSE IF scan_i > scan_stack[Len(scan_stack)].start /\ Contains(LineAt(scan_i - 1), <<"{">>)
       THEN /\ scan_result' = Append(scan_result, CbMarker(LineAt(scan_loc.start)))
            /\ scan_loc' = [scan_loc EXCEPT !.depth = BraceBalance(LineAt(scan_i - 1))]
            /\ scan_pc' = "js_skip"
            /\ UNCHANGED scan_stack
       ELSE /\ scan_pc' = "js_level"
            /\ UNCHANGED << scan_result, scan_stack, scan_loc >>
    /\ UNCHANGED << scan_language, scan_lines, scan_i, scan_output >>
    /\ UNCHANGED << prep_vars, scan_extracted, side_vars >>

\* an iteration of a loop that skips a body by counting braces: of a
\* method, of _skip_brace_block, of a const
JsSkipBody ==
    /\ scan_pc = "js_skip"
    /\ scan_i < Len(scan_lines)
    /\ scan_loc.depth > 0
    /\ scan_loc' = [scan_loc EXCEPT !.depth = @ + BraceBalance(LineAt(scan_i))]
    /\ scan_i' = scan_i + 1
    /\ UNCHANGED << scan_language, scan_lines, scan_pc, scan_result, scan_stack, scan_output >>
    /\ UNCHANGED << prep_vars, scan_extracted, side_vars >>

\* the body is skipped
JsSkipEnd ==
    /\ scan_pc = "js_skip"
    /\ scan_i >= Len(scan_lines) \/ scan_loc.depth <= 0
    /\ scan_pc' = "js_level"
    /\ UNCHANGED << scan_language, scan_lines, scan_i, scan_result, scan_stack, scan_loc,
                    scan_output >>
    /\ UNCHANGED << prep_vars, scan_extracted, side_vars >>

\* the loop on an import or require line: the line is kept
JsImport ==
    /\ JsLoops
    /\ JsBranch(LineAt(scan_i), JsInClass) = "import"
    /\ scan_result' = Append(scan_result, LineAt(scan_i))
    /\ scan_i' = scan_i + 1
    /\ scan_pc' = "js_import"
    /\ UNCHANGED << scan_language, scan_lines, scan_stack, scan_loc, scan_output >>
    /\ UNCHANGED << prep_vars, scan_extracted, side_vars >>

\* the loop of the lines of an import goes on: the line before does not end
\* the import and the line is not blank
JsImportContinues ==
    /\ scan_i < Len(scan_lines)
    /\ ~ EndsWith(RStrip(LineAt(scan_i - 1)), <<";">>)
    /\ ~ (EndsWith(RStrip(LineAt(scan_i - 1)), <<"}">>) /\ Contains(RStrip(LineAt(scan_i - 1)), <<"f", "r", "o", "m">>))
    /\ Strip(LineAt(scan_i)) /= << >>

\* an iteration of the loop of the lines of an import
JsImportLine ==
    /\ scan_pc = "js_import"
    /\ JsImportContinues
    /\ scan_result' = Append(scan_result, LineAt(scan_i))
    /\ scan_i' = scan_i + 1
    /\ UNCHANGED << scan_language, scan_lines, scan_pc, scan_stack, scan_loc, scan_output >>
    /\ UNCHANGED << prep_vars, scan_extracted, side_vars >>

\* the import is ended
JsImportEnd ==
    /\ scan_pc = "js_import"
    /\ ~ JsImportContinues
    /\ scan_pc' = "js_level"
    /\ UNCHANGED << scan_language, scan_lines, scan_i, scan_result, scan_stack, scan_loc,
                    scan_output >>
    /\ UNCHANGED << prep_vars, scan_extracted, side_vars >>

\* the loop on an interface or type line: the line is kept, and its body
\* after it if the line has a "{"
JsInterface ==
    /\ JsLoops
    /\ JsBranch(LineAt(scan_i), JsInClass) = "interface"
    /\ scan_result' = Append(scan_result, LineAt(scan_i))
    /\ scan_i' = scan_i + 1
    /\ IF Contains(LineAt(scan_i), <<"{">>)
       THEN /\ scan_loc' = [NoLocals EXCEPT !.depth = BraceBalance(LineAt(scan_i))]
            /\ scan_pc' = "js_interface"
       ELSE UNCHANGED << scan_pc, scan_loc >>
    /\ UNCHANGED << scan_language, scan_lines, scan_stack, scan_output >>
    /\ UNCHANGED << prep_vars, scan_extracted, side_vars >>

\* an iteration of the loop that keeps the body of an interface or type
JsInterfaceLine ==
    /\ scan_pc = "js_interface"
    /\ scan_i < Len(scan_lines)
    /\ scan_loc.depth > 0
    /\ scan_result' = Append(scan_result, LineAt(scan_i))
    /\ scan_loc' = [scan_loc EXCEPT !.depth = @ + BraceBalance(LineAt(scan_i))]
    /\ scan_i' = scan_i + 1
    /\ UNCHANGED << scan_language, scan_lines, scan_pc, scan_stack, scan_output >>
    /\ UNCHANGED << prep_vars, scan_extracted, side_vars >>

\* the body of the interface or type is kept
JsInterfaceEnd ==
    /\ scan_pc = "js_interface"
    /\ scan_i >= Len(scan_lines) \/ scan_loc.depth <= 0
    /\ scan_pc' = "js_level"
    /\ UNCHANGED << scan_language, scan_lines, scan_i, scan_result, scan_stack, scan_loc,
                    scan_output >>
    /\ UNCHANGED << prep_vars, scan_extracted, side_vars >>

\* the loop on a const, let or var line: the line is kept, and if it opens
\* more braces than it closes the marker follows and the body is skipped
JsConst ==
    /\ JsLoops
    /\ JsBranch(LineAt(scan_i), JsInClass) = "const"
    /\ scan_i' = scan_i + 1
    /\ IF BraceBalance(LineAt(scan_i)) > 0
       THEN /\ scan_result' = Append(Append(scan_result, LineAt(scan_i)),
                                     CbMarker(LineAt(scan_i)))
            /\ scan_loc' = [NoLocals EXCEPT !.depth = BraceBalance(LineAt(scan_i))]
            /\ scan_pc' = "js_skip"
       ELSE /\ scan_result' = Append(scan_result, LineAt(scan_i))
            /\ UNCHANGED << scan_pc, scan_loc >>
    /\ UNCHANGED << scan_language, scan_lines, scan_stack, scan_output >>
    /\ UNCHANGED << prep_vars, scan_extracted, side_vars >>

\* the steps of the nested-body scanner
JsNext ==
    \/ JsCall
    \/ JsLevelEnd
    \/ JsBlank
    \/ JsClassClose
    \/ JsComment
    \/ JsCommentLine
    \/ JsCommentEnd
    \/ JsKeep
    \/ JsSkipLine
    \/ JsDeclaration
    \/ JsContinuation
    \/ JsAfterSignature
    \/ JsSkipBody
    \/ JsSkipEnd
    \/ JsImport
    \/ JsImportLine
    \/ JsImportEnd
    \/ JsInterface
    \/ JsInterfaceLine
    \/ JsInterfaceEnd
    \/ JsConst

----------------------------------------------------------------------------
(* The fallback scanner: _extract_generic_signatures on the characters *)

\* the words of structural_re
GenStructuralWords ==
    {<<"i", "m", "p", "o", "r", "t", " ">>, <<"f", "r", "o", "m", " ">>, <<"r", "e", "q", "u", "i", "r", "e", "(">>, <<"e", "x", "p", "o", "r", "t", " ">>, <<"p", "a", "c", "k", "a", "g", "e", " ">>, <<"u", "s", "e", " ">>, <<"p", "u", "b", " ">>,
     <<"c", "l", "a", "s", "s", " ">>, <<"s", "t", "r", "u", "c", "t", " ">>, <<"t", "y", "p", "e", " ">>, <<"i", "n", "t", "e", "r", "f", "a", "c", "e", " ">>, <<"e", "n", "u", "m", " ">>,
     <<"d", "e", "f", " ">>, <<"f", "n", " ">>, <<"f", "u", "n", "c", " ">>, <<"f", "u", "n", "c", "t", "i", "o", "n", " ">>,
     <<"c", "o", "n", "s", "t", " ">>, <<"l", "e", "t", " ">>, <<"v", "a", "r", " ">>,
     <<"p", "u", "b", "l", "i", "c", " ">>, <<"p", "r", "i", "v", "a", "t", "e", " ">>, <<"p", "r", "o", "t", "e", "c", "t", "e", "d", " ">>, <<"a", "b", "s", "t", "r", "a", "c", "t", " ">>, <<"s", "t", "a", "t", "i", "c", " ">>}

\* the branch an iteration of the loop of _extract_generic_signatures takes
\* on a line
GenBranch(line) ==
    With(LStrip(line), LAMBDA stripped :
        IF stripped = << >> THEN "blank"
        ELSE IF \E w \in GenStructuralWords : StartsWith(stripped, w) THEN "keep"
        ELSE IF StartsWith(stripped, <<"@">>) THEN "keep"
        ELSE IF \E c \in {<<"/", "/">>, <<"#">>, <<"/", "*">>} : StartsWith(stripped, c) THEN "keep"
        ELSE "skip")

\* _extract_generic_signatures begins
GenCall ==
    /\ scan_pc = "call"
    /\ scan_language \notin ScannedLanguages
    /\ scan_pc' = "gen_loop"
    /\ scan_i' = 0
    /\ scan_result' = << >>
    /\ UNCHANGED << scan_language, scan_lines, scan_stack, scan_loc, scan_output >>
    /\ UNCHANGED << prep_vars, scan_extracted, side_vars >>

\* the loop over the lines is ended: return "\n".join(result)
GenReturn ==
    /\ scan_pc = "gen_loop"
    /\ scan_i >= Len(scan_lines)
    /\ scan_pc' = "done"
    /\ scan_output' = << JoinNewline(scan_result) >>
    /\ UNCHANGED << scan_language, scan_lines, scan_i, scan_result, scan_stack, scan_loc >>
    /\ UNCHANGED << prep_vars, scan_extracted, side_vars >>

\* the loop on a blank line
GenBlank ==
    /\ scan_pc = "gen_loop"
    /\ scan_i < Len(scan_lines)
    /\ GenBranch(LineAt(scan_i)) = "blank"
    /\ scan_result' = CompressBlank(scan_result)
    /\ scan_i' = scan_i + 1
    /\ UNCHANGED << scan_language, scan_lines, scan_pc, scan_stack, scan_loc, scan_output >>
    /\ UNCHANGED << prep_vars, scan_extracted, side_vars >>

\* the loop on a structural line, a decorator or a comment
GenKeep ==
    /\ scan_pc = "gen_loop"
    /\ scan_i < Len(scan_lines)
    /\ GenBranch(LineAt(scan_i)) = "keep"
    /\ scan_result' = Append(scan_result, LineAt(scan_i))
    /\ scan_i' = scan_i + 1
    /\ UNCHANGED << scan_language, scan_lines, scan_pc, scan_stack, scan_loc, scan_output >>
    /\ UNCHANGED << prep_vars, scan_extracted, side_vars >>

\* the loop on any other line
GenSkipLine ==
    /\ scan_pc = "gen_loop"
    /\ scan_i < Len(scan_lines)
    /\ GenBranch(LineAt(scan_i)) = "skip"
    /\ scan_i' = scan_i + 1
    /\ UNCHANGED << scan_language, scan_lines, scan_pc, scan_result, scan_stack, scan_loc,
                    scan_output >>
    /\ UNCHANGED << prep_vars, scan_extracted, side_vars >>

\* the steps of the fallback scanner
GenNext ==
    \/ GenCall
    \/ GenReturn
    \/ GenBlank
    \/ GenKeep
    \/ GenSkipLine

----------------------------------------------------------------------------
(* The source files _extract_signatures is run on *)

\* the number of lines taken out of a template at most
MaxDeleted ==
    2

\* the list t without the lines whose places are in gone
Without(t, gone) ==
    With(SelectSeq([j \in 1..Len(t) |-> j], LAMBDA j : j \notin gone),
         LAMBDA kept : [k \in 1..Len(kept) |-> t[kept[k]]])

\* the files made of a template by taking out at most MaxDeleted lines:
\* among them files with a docstring or a comment that never ends, with
\* braces that do not balance, with a declaration that never reaches its
\* ":" or "{".  str.splitlines gives no list that ends with an empty line.
Variants(t) ==
    {l \in {Without(t, gone) :
                gone \in {g \in SUBSET (1..Len(t)) : Cardinality(g) <= MaxDeleted}} :
        l = << >> \/ l[Len(l)] /= << >>}

\* a function with a docstring and a body
PyFunction ==
    << <<"d", "e", "f", " ", "f", "(", "x", ")", ":">>,
       <<" ", " ", " ", " ", "\"", "\"", "\"", "D", "o", "c", ".", "\"", "\"", "\"">>,
       <<" ", " ", " ", " ", "a", " ", "=", " ", "1">>,
       <<" ", " ", " ", " ", "b", " ", "=", " ", "2">>,
       <<" ", " ", " ", " ", "r", "e", "t", "u", "r", "n", " ", "a">> >>

\* a class with a docstring of two lines and a method declared on two lines
PyClass ==
    << <<"i", "m", "p", "o", "r", "t", " ", "o", "s">>,
       <<"@", "d", "e", "c">>,
       <<"c", "l", "a", "s", "s", " ", "A", ":">>,
       <<" ", " ", " ", " ", "\"", "\"", "\"", "D", "o", "c">>,
       <<" ", " ", " ", " ", "e", "n", "d", "\"", "\"", "\"">>,
       <<" ", " ", " ", " ", "d", "e", "f", " ", "m", "(", "s", ",">>,
       <<" ", " ", " ", " ", " ", " ", " ", " ", " ", " ", "y", ")", ":">>,
       <<" ", " ", " ", " ", " ", " ", " ", " ", "p", "a", "s", "s">>,
       <<"X", " ", "=", " ", "1">> >>

\* a def line that ends with a comment, and a one-line def
PyCommented ==
    << <<"#", " ", "c">>,
       <<"a", "s", "y", "n", "c", " ", "d", "e", "f", " ", "g", "(", ")", ":", " ", " ", "#", " ", "n">>,
       <<" ", " ", " ", " ", "i", "f", " ", "x", ":">>,
       <<" ", " ", " ", " ", " ", " ", " ", " ", "y", " ", "=", " ", "2">>,
       << >>,
       <<"d", "e", "f", " ", "h", "(", ")", ":", " ", "r", "e", "t", "u", "r", "n", " ", "1">>,
       <<"z", " ", "=", " ", "3">> >>

\* a class with a documented method on one line and a method of several statements
JavaClass ==
    << <<"p", "a", "c", "k", "a", "g", "e", " ", "p", ";">>,
       <<"p", "u", "b", "l", "i", "c", " ", "c", "l", "a", "s", "s", " ", "F", "o", "o", " ", "{">>,
       <<" ", " ", " ", " ", "/", "*", "*", " ", "d", "o", "c">>,
       <<" ", " ", " ", " ", " ", "*", "/">>,
       <<" ", " ", " ", " ", "p", "u", "b", "l", "i", "c", " ", "i", "n", "t", " ", "a", "(", ")", " ", "{", " ", "r", "e", "t", "u", "r", "n", " ", "1", ";", " ", "}">>,
       <<" ", " ", " ", " ", "p", "u", "b", "l", "i", "c", " ", "v", "o", "i", "d", " ", "b", "(", ")", " ", "{">>,
       <<" ", " ", " ", " ", " ", " ", " ", " ", "x", "(", ")", ";">>,
       <<" ", " ", " ", " ", " ", " ", " ", " ", "y", "(", ")", ";">>,
       <<" ", " ", " ", " ", "}">>,
       <<"}">> >>

\* a package line and an import block
GoImports ==
    << <<"p", "a", "c", "k", "a", "g", "e", " ", "m", "a", "i", "n">>,
       << >>,
       <<"i", "m", "p", "o", "r", "t", " ", "(">>,
       <<" ", " ", " ", " ", "\"", "f", "m", "t", "\"">>,
       <<")">> >>

\* a block comment, a struct and a func declared on two lines
GoFile ==
    << <<"/", "*", " ", "n", "o", "t", "e">>,
       <<" ", " ", " ", "e", "n", "d", " ", "*", "/">>,
       <<"t", "y", "p", "e", " ", "T", " ", "s", "t", "r", "u", "c", "t", " ", "{">>,
       <<" ", " ", " ", " ", "n", " ", "i", "n", "t">>,
       <<"}">>,
       <<"f", "u", "n", "c", " ", "(", "t", " ", "T", ")", " ", "G", "e", "t", "(">>,
       <<" ", " ", " ", " ", "k", " ", "i", "n", "t", ")", " ", "i", "n", "t", " ", "{">>,
       <<" ", " ", " ", " ", "r", "e", "t", "u", "r", "n", " ", "t", ".", "n">>,
       <<"}">> >>

\* a struct whose "{" stands on a later line
RustStruct ==
    << <<"#", "[", "d", "e", "r", "i", "v", "e", "(", "D", "e", "b", "u", "g", ")", "]">>,
       <<"p", "u", "b", " ", "s", "t", "r", "u", "c", "t", " ", "P">>,
       <<" ", " ", " ", " ", "w", "h", "e", "r", "e", " ", "T", ":", " ", "X">>,
       <<"{">>,
       <<" ", " ", " ", " ", "x", ":", " ", "i", "3", "2", ",">>,
       <<"}">> >>

\* a use line and a fn
RustFn ==
    << <<"u", "s", "e", " ", "a", ":", ":", "b", ";">>,
       <<"p", "u", "b", " ", "f", "n", " ", "n", "e", "w", "(", ")", " ", "-", ">", " ", "P", " ", "{">>,
       <<" ", " ", " ", " ", "P", " ", "{", " ", "x", ":", " ", "1", " ", "}">>,
       <<"}">> >>

\* a class closed on the line that opens the next class and its method
CsNested ==
    << <<"u", "s", "i", "n", "g", " ", "S", "y", "s", "t", "e", "m", ";">>,
       <<"n", "a", "m", "e", "s", "p", "a", "c", "e", " ", "N", " ", "{">>,
       <<" ", " ", " ", " ", "[", "A", "t", "t", "r", "]">>,
       <<" ", " ", " ", " ", "c", "l", "a", "s", "s", " ", "C", " ", "{">>,
       <<" ", " ", " ", " ", " ", " ", " ", " ", "i", "n", "t", " ", "x", ";">>,
       <<" ", " ", " ", " ", "}", " ", "c", "l", "a", "s", "s", " ", "D", " ", "{", " ", "v", "o", "i", "d", " ", "F", "(", ")", " ", "{">>,
       <<" ", " ", " ", " ", " ", " ", " ", " ", " ", " ", " ", " ", "g", "(", ")", ";">>,
       <<" ", " ", " ", " ", " ", " ", " ", " ", "}">>,
       <<" ", " ", " ", " ", "}">>,
       <<"}">> >>

\* an import on two lines and a documented class with a field and a constructor declared on two lines
TsClass ==
    << <<"i", "m", "p", "o", "r", "t", " ", "{", " ", "a", ",">>,
       <<" ", " ", "b", " ", "}", " ", "f", "r", "o", "m", " ", "\"", "x", "\"", ";">>,
       <<"/", "*", "*", " ", "d", "o", "c">>,
       <<" ", "*", "/">>,
       <<"e", "x", "p", "o", "r", "t", " ", "c", "l", "a", "s", "s", " ", "A", " ", "{">>,
       <<" ", " ", "p", "r", "i", "v", "a", "t", "e", " ", "n", ":", " ", "n", "u", "m", "b", "e", "r", ";">>,
       <<" ", " ", "c", "o", "n", "s", "t", "r", "u", "c", "t", "o", "r", "(">>,
       <<" ", " ", " ", " ", "n", ":", " ", "n", "u", "m", "b", "e", "r", ")", " ", "{">>,
       <<" ", " ", " ", " ", "t", "h", "i", "s", ".", "n", " ", "=", " ", "n", ";">>,
       <<" ", " ", "}">>,
       <<"}">> >>

\* a require, an export, an interface, a function declared on two lines and an arrow function
JsModule ==
    << <<"c", "o", "n", "s", "t", " ", "f", "s", " ", "=", " ", "r", "e", "q", "u", "i", "r", "e", "(", "\"", "f", "s", "\"", ")", ";">>,
       << >>,
       <<"/", "/", " ", "c">>,
       <<"e", "x", "p", "o", "r", "t", " ", "d", "e", "f", "a", "u", "l", "t", " ", "X", ";">>,
       <<"i", "n", "t", "e", "r", "f", "a", "c", "e", " ", "I", " ", "{">>,
       <<" ", " ", "a", ":", " ", "s", "t", "r", "i", "n", "g", ";">>,
       <<"}">>,
       <<"a", "s", "y", "n", "c", " ", "f", "u", "n", "c", "t", "i", "o", "n", " ", "f", "(">>,
       <<" ", " ", "x", ")", " ", "{">>,
       <<" ", " ", "g", "(", ")", ";">>,
       <<"}">>,
       <<"c", "o", "n", "s", "t", " ", "h", " ", "=", " ", "(", ")", " ", "=", ">", " ", "{">>,
       <<" ", " ", "k", "(", ")", ";">>,
       <<"}", ";">> >>

\* a file of a language that has no scanner of its own
RubyClass ==
    << <<"#", " ", "c">>,
       <<"r", "e", "q", "u", "i", "r", "e", " ", "'", "x", "'">>,
       << >>,
       <<"c", "l", "a", "s", "s", " ", "A">>,
       <<" ", " ", "@", "x", " ", "=", " ", "1">>,
       <<" ", " ", "d", "e", "f", " ", "m">>,
       <<" ", " ", " ", " ", "1">>,
       <<" ", " ", "e", "n", "d">>,
       <<"e", "n", "d">> >>

\* a class with a method written on one line, then a constant and a function
PyOneLiner ==
    << <<"c", "l", "a", "s", "s", " ", "B", ":">>,
       <<" ", " ", " ", " ", "d", "e", "f", " ", "m", "(", "s", ")", ":", " ", "r", "e", "t", "u", "r", "n", " ", "1">>,
       <<"Y", " ", "=", " ", "2">>,
       <<"d", "e", "f", " ", "g", "(", ")", ":">>,
       <<" ", " ", " ", " ", "p", "a", "s", "s">> >>

\* a function written on one line, then a function and a type
GoOneLiner ==
    << <<"f", "u", "n", "c", " ", "O", "n", "e", "(", ")", " ", "i", "n", "t", " ", "{", " ", "r", "e", "t", "u", "r", "n", " ", "1", " ", "}">>,
       <<"f", "u", "n", "c", " ", "T", "w", "o", "(", ")", " ", "i", "n", "t", " ", "{">>,
       <<" ", " ", "r", "e", "t", "u", "r", "n", " ", "2">>,
       <<"}">>,
       <<"t", "y", "p", "e", " ", "T", " ", "s", "t", "r", "u", "c", "t", " ", "{">>,
       <<" ", " ", "n", " ", "i", "n", "t">>,
       <<"}">> >>

\* a type with no field, then a method and a type
GoEmptyType ==
    << <<"t", "y", "p", "e", " ", "E", " ", "s", "t", "r", "u", "c", "t", "{", "}">>,
       <<"f", "u", "n", "c", " ", "(", "e", " ", "E", ")", " ", "F", "(", ")", " ", "i", "n", "t", " ", "{">>,
       <<" ", " ", "r", "e", "t", "u", "r", "n", " ", "1">>,
       <<"}">>,
       <<"t", "y", "p", "e", " ", "T", " ", "s", "t", "r", "u", "c", "t", " ", "{">>,
       <<" ", " ", "n", " ", "i", "n", "t">>,
       <<"}">> >>

\* a class with a field that holds an object literal, then a method and a constant
TsFields ==
    << <<"c", "l", "a", "s", "s", " ", "A", " ", "{">>,
       <<" ", " ", "o", "p", "t", "s", " ", "=", " ", "{">>,
       <<" ", " ", " ", " ", "a", ":", " ", "1", ",">>,
       <<" ", " ", "}", ";">>,
       <<" ", " ", "m", "(", ")", " ", "{">>,
       <<" ", " ", " ", " ", "x", "(", ")", ";">>,
       <<" ", " ", "}">>,
       <<"}">>,
       <<"e", "x", "p", "o", "r", "t", " ", "c", "o", "n", "s", "t", " ", "z", " ", "=", " ", "1", ";">> >>

\* a class with no member, then a function
JsEmptyClass ==
    << <<"c", "l", "a", "s", "s", " ", "E", " ", "{", "}">>,
       <<"f", "u", "n", "c", "t", "i", "o", "n", " ", "f", "(", ")", " ", "{">>,
       <<" ", " ", "g", "(", ")", ";">>,
       <<"}">>,
       <<"e", "x", "p", "o", "r", "t", " ", "d", "e", "f", "a", "u", "l", "t", " ", "E", ";">> >>

\* the calls of _extract_signatures that are followed
ScanInputs ==
    {[language |-> "python", lines |-> l] :
        l \in Variants(PyFunction) \cup Variants(PyClass) \cup Variants(PyCommented)
               \cup Variants(PyOneLiner)}
    \cup {[language |-> "java", lines |-> l] : l \in Variants(JavaClass)}
    \cup {[language |-> "go", lines |-> l] :
            l \in Variants(GoImports) \cup Variants(GoFile) \cup Variants(GoOneLiner)
                   \cup Variants(GoEmptyType)}
    \cup {[language |-> "rust", lines |-> l] : l \in Variants(RustStruct) \cup Variants(RustFn)}
    \cup {[language |-> "csharp", lines |-> l] : l \in Variants(CsNested)}
    \cup {[language |-> "typescript", lines |-> l] :
            l \in Variants(TsClass) \cup Variants(TsFields)}
    \cup {[language |-> "javascript", lines |-> l] :
            l \in Variants(JsModule) \cup Variants(JsEmptyClass)}
    \cup {[language |-> "ruby", lines |-> l] : l \in Variants(RubyClass)}

\* prepare() is not running
NoPrepare ==
    /\ disk = {}
    /\ max_tokens = 0
    /\ pc = "idle"
    /\ sniffed = {}
    /\ text_reads = {}
    /\ all_files = << >>
    /\ tier1_paths = << >>
    /\ tier2_paths = << >>
    /\ tier3_paths = << >>
    /\ tier1_files = << >>
    /\ tier2_files = << >>
    /\ tier3_file_strs = << >>
    /\ file_tree = << >>
    /\ tree_tokens = 0
    /\ tier1_tokens = 0
    /\ total_tokens = 0
    /\ manifest = << >>

\* _extract_signatures is called with a content and a language
InitScan ==
    /\ NoPrepare
    /\ \E input \in ScanInputs :
           /\ scan_language = input.language
           /\ scan_lines = input.lines
    /\ scan_pc = "call"
    /\ scan_i = 0
    /\ scan_result = << >>
    /\ scan_stack = << >>
    /\ scan_loc = NoLocals
    /\ scan_output = << >>
    /\ scan_extracted = << >>
    /\ NoSide

ScanNext ==
    \/ PyNext
    \/ JsNext
    \/ CbNext
    \/ GenNext

SpecScan ==
    InitScan /\ [][ScanNext]_vars

\* a call is one sequential run: a step that can be taken is taken
SpecScanFair ==
    InitScan /\ [][ScanNext]_vars /\ WF_vars(ScanNext)

----------------------------------------------------------------------------
(* The loop of prepare() over the Tier-2 files: one call of *)
(* _extract_signatures after another, on the same RepoFilePreparator *)

\* the number of files extracted one after another at most
MaxRuns ==
    3

\* the files extracted one after another: every template, and parts of
\* templates that begin or end in the middle of a docstring, a comment, an
\* import, a declaration or a body
RunInputs ==
    {[language |-> "python", lines |-> l] :
        l \in {PyFunction, SubSeq(PyFunction, 2, 5), PyClass, SubSeq(PyClass, 1, 4),
               Without(PyClass, {5}), PyCommented, SubSeq(PyCommented, 5, 7)}}
    \cup {[language |-> "java", lines |-> l] : l \in {JavaClass, SubSeq(JavaClass, 1, 3)}}
    \cup {[language |-> "go", lines |-> l] :
            l \in {GoImports, SubSeq(GoImports, 1, 4), GoFile, SubSeq(GoFile, 1, 6)}}
    \cup {[language |-> "rust", lines |-> l] :
            l \in {RustStruct, SubSeq(RustStruct, 1, 3), RustFn}}
    \cup {[language |-> "csharp", lines |-> l] : l \in {CsNested}}
    \cup {[language |-> "typescript", lines |-> l] : l \in {TsClass, SubSeq(TsClass, 1, 3)}}
    \cup {[language |-> "javascript", lines |-> l] : l \in {JsModule, SubSeq(JsModule, 10, 14)}}
    \cup {[language |-> "ruby", lines |-> l] : l \in {RubyClass}}

\* the first file of the loop
InitRuns ==
    /\ NoPrepare
    /\ \E input \in RunInputs :
           /\ scan_language = input.language
           /\ scan_lines = input.lines
    /\ scan_pc = "call"
    /\ scan_i = 0
    /\ scan_result = << >>
    /\ scan_stack = << >>
    /\ scan_loc = NoLocals
    /\ scan_output = << >>
    /\ scan_extracted = << >>
    /\ NoSide

\* the call that returned, with its output
ReturnedCall ==
    [language |-> scan_language, lines |-> scan_lines, output |-> scan_output]

\* the files the next call may be for: after the first file any file,
\* after that a file that was extracted before
NextInputs ==
    IF scan_extracted = << >> THEN RunInputs
    ELSE {[language |-> c.language, lines |-> c.lines] :
            c \in Range(scan_extracted) \cup {ReturnedCall}}

\* the loop goes to its next file: signatures is stored and
\* _extract_signatures is called again, on the same object; what the last
\* call left in its variables is still there
ScanAgain ==
    /\ scan_pc = "done"
    /\ Len(scan_extracted) < MaxRuns - 1
    /\ scan_extracted' = Append(scan_extracted, ReturnedCall)
    /\ \E input \in NextInputs :
           /\ scan_language' = input.language
           /\ scan_lines' = input.lines
    /\ scan_pc' = "call"
    /\ scan_output' = << >>
    /\ UNCHANGED << scan_i, scan_result, scan_stack, scan_loc >>
    /\ UNCHANGED << prep_vars, side_vars >>

RunsNext ==
    \/ ScanNext
    \/ ScanAgain

SpecRuns ==
    InitRuns /\ [][RunsNext]_vars

----------------------------------------------------------------------------
(* Properties of the signature scanners *)

\* the call of _extract_signatures has returned
ScanDone ==
    scan_pc = "done"

\* the "(" less the ")" of the lines a to b
RECURSIVE ParenBalance(_, _)
ParenBalance(a, b) ==
    IF a > b THEN 0
    ELSE CountOf(LineAt(a), <<"(">>) - CountOf(LineAt(a), <<")">>) + ParenBalance(a + 1, b)

\* the places of the lines
Places ==
    0..(Len(scan_lines) - 1)

\* the line at k is blank
BlankAt(k) ==
    Strip(LineAt(k)) = << >>

\* the lines a to b are blank or indented more than the line at d
Deeper(d, a, b) ==
    \A j \in a..b : BlankAt(j) \/ IndentOf(LineAt(j)) > IndentOf(LineAt(d))

\* the declaration that begins at d is closed by its ")" on some line
DeclarationCloses(d) ==
    \E k \in Places : k >= d /\ ParenBalance(d, k) = 0

\* the place of the last line of the declaration that begins at d
DeclarationEnd(d) ==
    CHOOSE k \in Places :
        /\ k >= d /\ ParenBalance(d, k) = 0
        /\ \A j \in d..(k - 1) : ParenBalance(d, j) /= 0

\* the place of the last line of the docstring of the declaration at d, or
\* of the declaration if it has no docstring
DocstringEnd(d) ==
    LET first == DeclarationEnd(d) + 1
        quote == PyQuoteOf(LineAt(first))
        closing == {k \in Places : k > first /\ Contains(LineAt(k), quote)}
    IN  IF first \notin Places \/ quote = << >> THEN first - 1
        ELSE IF CountOf(LStrip(LineAt(first)), quote) >= 2 THEN first
        ELSE IF closing = {} THEN Len(scan_lines) - 1
        ELSE CHOOSE k \in closing : \A j \in closing : k <= j

\* the def and async def lines the block walker comes to: those with a
\* closed declaration that are in the body of no other def and in the
\* docstring of no class or def
ReachedDefs ==
    {d \in Places :
        /\ PyDefLine(LineAt(d))
        /\ DeclarationCloses(d)
        /\ ~ \E e \in Places :
               /\ e < d
               /\ PyDefLine(LineAt(e))
               /\ Deeper(e, e + 1, d)
        /\ ~ \E e \in Places :
               /\ e < d
               /\ PyDefLine(LineAt(e)) \/ PyClassLine(LineAt(e))
               /\ DeclarationCloses(e)
               /\ DeclarationEnd(e) < d /\ d <= DocstringEnd(e)}

\* the places of the statements of the body of the def at d: the lines
\* after its declaration and docstring, as far as the indentation stays
\* deeper than the def's
BodyStatements(d) ==
    {k \in Places :
        /\ k > DocstringEnd(d)
        /\ ~ BlankAt(k)
        /\ Deeper(d, DocstringEnd(d) + 1, k)}

\* the ellipsis line put in place of the body of the def at d
EllipsisOf(d) ==
    Spaces(IndentOf(LineAt(d)) + 4) \o <<".", ".", ".">>

\* the lines a to b, as a list
LinesFrom(a, b) ==
    [k \in 1..(b - a + 1) |-> LineAt(a + k - 1)]

\* the list part is in the list whole, as one block
IsBlockOf(part, whole) ==
    \E at \in 0..(Len(whole) - Len(part)) :
        SubSeq(whole, at + 1, at + Len(part)) = part

\* C18: when the indentation scanner has returned, for every def and async
\* def the block walker comes to, the result holds the lines of its
\* declaration and of its docstring followed by its ellipsis line, as one
\* block, and no line of the result is a statement of its body; and if the
\* walker comes to every def of the file, the result has as many ellipsis
\* lines as the file has defs.
C18_DefBodyIsOneEllipsis ==
    (ScanDone /\ scan_language = "python") =>
        /\ \A d \in ReachedDefs :
               /\ IsBlockOf(Append(LinesFrom(d, DocstringEnd(d)), EllipsisOf(d)),
                            scan_result)
               /\ \A k \in BodyStatements(d) : LineAt(k) \notin Range(scan_result)
        /\ (\A d \in Places : PyDefLine(LineAt(d)) => d \in ReachedDefs) =>
               Cardinality({n \in 1..Len(scan_result) :
                               EndsWith(scan_result[n], <<".", ".", ".">>)})
                   = Cardinality(ReachedDefs)

\* the "{" less the "}" of the lines before the place k
RECURSIVE BraceDepthBefore(_)
BraceDepthBefore(k) ==
    IF k <= 0 THEN 0 ELSE BraceDepthBefore(k - 1) + BraceBalance(LineAt(k - 1))

\* what the line has between its first "{" and its last "}", stripped: the
\* statements of a body written on the line of its signature
RECURSIVE BeforeLast(_, _)
BeforeLast(s, c) ==
    IF s = << >> THEN << >>
    ELSE IF s[Len(s)] = c THEN SubSeq(s, 1, Len(s) - 1)
    ELSE BeforeLast(SubSeq(s, 1, Len(s) - 1), c)

BodyOnLine(line) ==
    Strip(BeforeLast(Drop(line, Len(BeforeFirst(line, "{")) + 1), "}"))

\* the places of the class declarations of a Java file
JavaClasses ==
    {c \in Places :
        /\ BraceDepthBefore(c) = 0
        /\ Contains(LineAt(c), <<"c", "l", "a", "s", "s", " ">>)
        /\ Contains(LineAt(c), <<"{">>)}

\* the places of the method declarations of a Java file: the lines of the
\* class body with a parameter list and the "{" of a body
JavaMethods ==
    {m \in Places :
        /\ BraceDepthBefore(m) = 1
        /\ Contains(LineAt(m), <<"(">>)
        /\ Contains(LineAt(m), <<"{">>)}

\* the file is a Java class with methods: one class, braces that balance,
\* comments that are opened and closed
JavaClassWithMethods ==
    /\ scan_language = "java"
    /\ Cardinality(JavaClasses) = 1
    /\ JavaMethods /= {}
    /\ BraceDepthBefore(Len(scan_lines)) = 0
    /\ \A k \in Places : BraceDepthBefore(k + 1) >= 0
    /\ \A k \in Places :
           /\ Contains(LineAt(k), <<"/", "*">>) => \E j \in Places : j >= k /\ Contains(LineAt(j), <<"*", "/">>)
           /\ Contains(LineAt(k), <<"*", "/">>) => \E j \in Places : j <= k /\ Contains(LineAt(j), <<"/", "*">>)

\* the place of the line that closes the body of the method at m
MethodClose(m) ==
    CHOOSE k \in Places :
        /\ k >= m /\ BraceDepthBefore(k + 1) = 1
        /\ \A j \in m..(k - 1) : BraceDepthBefore(j + 1) /= 1

\* the statements of the body of the method at m: the lines between its
\* signature and its closing line, or what stands between the braces of a
\* method written on one line
MethodStatements(m) ==
    IF MethodClose(m) = m
    THEN {BodyOnLine(LineAt(m))} \ {<< >>}
    ELSE {Strip(LineAt(k)) : k \in (m + 1)..(MethodClose(m) - 1)} \ {<< >>}

\* the line is an elision marker
IsMarker(line) ==
    Strip(line) = <<"/", "/", " ", ".", ".", ".">>

\* the places of the result where the signature of the method at m stands
SignaturePlaces(m) ==
    {p \in 1..Len(scan_result) :
        StartsWith(scan_result[p], RStrip(BeforeFirst(LineAt(m), "{")))}

\* C19: when the brace scanner has returned on a Java class with methods,
\* the result has the class declaration, it has the signature of every
\* method followed by one elision marker and no second one, it has as many
\* markers as the class has methods, and no line of the result has a
\* statement of the body of a method in it, be the method written on one
\* line or on several.
C19_JavaMethodsAreSignatureAndMarker ==
    (ScanDone /\ JavaClassWithMethods) =>
        /\ \A c \in JavaClasses : LineAt(c) \in Range(scan_result)
        /\ \A m \in JavaMethods :
               \E p \in SignaturePlaces(m) :
                   /\ p < Len(scan_result)
                   /\ IsMarker(scan_result[p + 1])
                   /\ p + 2 <= Len(scan_result) => ~ IsMarker(scan_result[p + 2])
        /\ Cardinality({p \in 1..Len(scan_result) : IsMarker(scan_result[p])})
               = Cardinality(JavaMethods)
        /\ \A m \in JavaMethods : \A s \in MethodStatements(m) :
               \A p \in 1..Len(scan_result) : ~ Contains(scan_result[p], s)

\* the loops whose test reads the line before the cursor, lines[i - 1]
LookBackLoops ==
    {"py_continuation", "cb_signature", "js_continuation", "js_import"}

\* the cursor is at a line or at the end of the lines, the line before it
\* exists where a loop reads it, and no line of the result was read
\* outside the list
CursorInside ==
    /\ scan_i \in 0..Len(scan_lines)
    /\ scan_pc \in LookBackLoops => scan_i >= 1
    /\ NoLine \notin Range(scan_result)

\* a step never moves the cursor back, it moves it forward only from a
\* line of the list, and an iteration of a loop moves it forward
CursorAdvances ==
    /\ scan_i' >= scan_i
    /\ scan_i' > scan_i => scan_i < Len(scan_lines)
    /\ (scan_pc' = scan_pc /\ scan_stack' = scan_stack) => scan_i' > scan_i

\* the scanner has returned at the end of the lines, with the lines it
\* kept joined
ReturnedAtEnd ==
    ScanDone =>
        /\ scan_i = Len(scan_lines)
        /\ scan_output = << JoinNewline(scan_result) >>

SameInputAs(k) ==
    /\ scan_extracted[k].language = scan_language
    /\ scan_extracted[k].lines = scan_lines

\* C20: when a call of _extract_signatures has returned, its output is the
\* output of every earlier call of the loop that was for the same content
\* and language, whatever files were extracted before it or between the
\* two.
C20_ExtractionIsDeterministic ==
    ScanDone =>
        \A k \in 1..Len(scan_extracted) :
            SameInputAs(k) => scan_extracted[k].output = scan_output

\* a file was extracted first, another file after it, and the first file
\* again, with an output that is not empty
C20_Witness ==
    /\ ScanDone
    /\ Len(scan_extracted) = 2
    /\ SameInputAs(1)
    /\ ~ SameInputAs(2)
    /\ scan_output /= << << >> >>

----------------------------------------------------------------------------
(* _build_file_tree, step by step *)

\* str.split(sep) for a separator of one character
Split(s, sep) ==
    With(s, LAMBDA v :
        LET cuts == {k \in 1..Len(v) : v[k] = sep}
            n == Cardinality(cuts)
            CutAt(i) ==
                IF i = 0 THEN 0
                ELSE IF i = n + 1 THEN Len(v) + 1
                ELSE CHOOSE k \in cuts : Cardinality({j \in cuts : j <= k}) = i
        IN  [i \in 1..(n + 1) |-> SubSeq(v, CutAt(i - 1) + 1, CutAt(i) - 1)])

\* the largest number of files of a call of _build_file_tree
MaxTreeFiles ==
    3

\* the relative paths the lists are made of: directories of one and two
\* levels, a file and a directory that differ by a suffix, names with the
\* characters "-" and "." that sort before os.sep
TreePaths ==
    { << <<"x">> >>,
      << <<"a", ".", "c">> >>,
      << <<"a">>, <<"x">> >>,
      << <<"a">>, <<"b", ".", "c">> >>,
      << <<"a">>, <<"b">>, <<"x">> >>,
      << <<"a">>, <<"b">>, <<"y">> >>,
      << <<"a", "-", "b">>, <<"x">> >>,
      << <<"b">>, <<"x">> >> }

\* p is a directory above q
Above(p, q) ==
    /\ Len(p) < Len(q)
    /\ SubSeq(q, 1, Len(p)) = p

\* the lists a directory walk can give in some order: every file once, no
\* file where another path has a directory
TreeInputs ==
    {s \in UNION {[1..n -> TreePaths] : n \in 0..MaxTreeFiles} :
        /\ \A i, j \in 1..Len(s) : s[i] = s[j] => i = j
        /\ \A i, j \in 1..Len(s) : ~ Above(s[i], s[j])}

\* the list with its entries at i and i + 1 exchanged
Exchanged(s, i) ==
    [k \in 1..Len(s) |-> IF k = i THEN s[i + 1] ELSE IF k = i + 1 THEN s[i] ELSE s[k]]

\* _build_file_tree is called with a list of files
InitTree ==
    /\ NoPrepare
    /\ NoScan
    /\ NoReads
    /\ NoCrawl
    /\ tree_files \in TreeInputs
    /\ tree_pc = "call"
    /\ tree_rel_paths = << >>
    /\ tree_k = 0
    /\ tree_parts = << >>
    /\ tree_depth = 0
    /\ tree_seen_dirs = {}
    /\ tree_lines = << >>
    /\ tree_output = << >>
    /\ tree_returned = << >>

\* if not all_files: return "(empty)\n"
TreeEmpty ==
    /\ tree_pc = "call"
    /\ tree_files = << >>
    /\ tree_output' = << <<"(", "e", "m", "p", "t", "y", ")">> \o << "\n" >> >>
    /\ tree_pc' = "done"
    /\ UNCHANGED << tree_files, tree_rel_paths, tree_k, tree_parts, tree_depth,
                    tree_seen_dirs, tree_lines, tree_returned >>
    /\ UNCHANGED << prep_vars, scan_vars, read_vars, crawl_vars >>

\* sorted(str(fp.relative_to(repo_path)) for fp in all_files)
RelPathsUnsorted(files) ==
    [i \in 1..Len(files) |-> PathStr(files[i])]

\* sorted(str(fp.relative_to(repo_path)) for fp in all_files)
RelPaths(files) ==
    StableSort([i \in 1..Len(files) |-> PathStr(files[i])], StrLess)

\* the first line, the sorted rel_paths and the empty seen_dirs
TreeCall ==
    /\ tree_pc = "call"
    /\ tree_files /= << >>
    /\ tree_lines' = << RepoName \o << "/" >> >>
    /\ tree_rel_paths' = RelPaths(tree_files)
    /\ tree_seen_dirs' = {}
    /\ tree_k' = 0
    /\ tree_pc' = "paths"
    /\ UNCHANGED << tree_files, tree_parts, tree_depth, tree_output, tree_returned >>
    /\ UNCHANGED << prep_vars, scan_vars, read_vars, crawl_vars >>

\* for rel in rel_paths: parts = rel.split(os.sep)
TreePath ==
    /\ tree_pc = "paths"
    /\ tree_k < Len(tree_rel_paths)
    /\ tree_k' = tree_k + 1
    /\ tree_parts' = Split(tree_rel_paths[tree_k + 1], "/")
    /\ tree_depth' = 0
    /\ tree_pc' = "dirs"
    /\ UNCHANGED << tree_files, tree_rel_paths, tree_seen_dirs, tree_lines, tree_output,
                    tree_returned >>
    /\ UNCHANGED << prep_vars, scan_vars, read_vars, crawl_vars >>

\* os.sep.join(parts[: depth + 1])
DirPrefix(parts, depth) ==
    PathStr(SubSeq(parts, 1, depth + 1))

\* f"{indent}{parts[depth]}/" with indent = "  " * (depth + 1)
DirLine(parts, depth) ==
    Indent(depth + 1) \o parts[depth + 1] \o << "/" >>

\* for depth in range(len(parts) - 1): a prefix that was not printed yet
TreeDir ==
    /\ tree_pc = "dirs"
    /\ tree_depth < Len(tree_parts) - 1
    /\ DirPrefix(tree_parts, tree_depth) \notin tree_seen_dirs
    /\ tree_seen_dirs' = tree_seen_dirs \cup {DirPrefix(tree_parts, tree_depth)}
    /\ tree_lines' = Append(tree_lines, DirLine(tree_parts, tree_depth))
    /\ tree_depth' = tree_depth + 1
    /\ UNCHANGED << tree_files, tree_pc, tree_rel_paths, tree_k, tree_parts, tree_output,
                    tree_returned >>
    /\ UNCHANGED << prep_vars, scan_vars, read_vars, crawl_vars >>

\* for depth in range(len(parts) - 1): a prefix that was printed before
TreeDirSeen ==
    /\ tree_pc = "dirs"
    /\ tree_depth < Len(tree_parts) - 1
    /\ DirPrefix(tree_parts, tree_depth) \in tree_seen_dirs
    /\ tree_depth' = tree_depth + 1
    /\ UNCHANGED << tree_files, tree_pc, tree_rel_paths, tree_k, tree_parts, tree_seen_dirs,
                    tree_lines, tree_output, tree_returned >>
    /\ UNCHANGED << prep_vars, scan_vars, read_vars, crawl_vars >>

\* f"{indent}{parts[-1]}" with indent = "  " * len(parts)
FileLine(parts) ==
    Indent(Len(parts)) \o parts[Len(parts)]

\* the inner loop is over: the file itself is printed
TreeFile ==
    /\ tree_pc = "dirs"
    /\ ~ (tree_depth < Len(tree_parts) - 1)
    /\ tree_lines' = Append(tree_lines, FileLine(tree_parts))
    /\ tree_pc' = "paths"
    /\ UNCHANGED << tree_files, tree_rel_paths, tree_k, tree_parts, tree_depth,
                    tree_seen_dirs, tree_output, tree_returned >>
    /\ UNCHANGED << prep_vars, scan_vars, read_vars, crawl_vars >>

\* the outer loop is over: return "\n".join(lines) + "\n"
TreeReturn ==
    /\ tree_pc = "paths"
    /\ ~ (tree_k < Len(tree_rel_paths))
    /\ tree_output' = << JoinNewline(tree_lines) \o << "\n" >> >>
    /\ tree_pc' = "done"
    /\ UNCHANGED << tree_files, tree_rel_paths, tree_k, tree_parts, tree_depth,
                    tree_seen_dirs, tree_lines, tree_returned >>
    /\ UNCHANGED << prep_vars, scan_vars, read_vars, crawl_vars >>

\* the call that returned, with its output
ReturnedTree ==
    [files |-> tree_files, output |-> tree_output]

\* _build_file_tree is called once more, with the same files in a list that
\* has two neighbours exchanged; the locals of the call that returned are
\* gone
TreeAgain ==
    /\ tree_pc = "done"
    /\ tree_returned = << >>
    /\ \E i \in 1..(Len(tree_files) - 1) : tree_files' = Exchanged(tree_files, i)
    /\ tree_returned' = Append(tree_returned, ReturnedTree)
    /\ tree_pc' = "call"
    /\ tree_rel_paths' = << >>
    /\ tree_k' = 0
    /\ tree_parts' = << >>
    /\ tree_depth' = 0
    /\ tree_seen_dirs' = {}
    /\ tree_lines' = << >>
    /\ tree_output' = << >>
    /\ UNCHANGED << prep_vars, scan_vars, read_vars, crawl_vars >>

TreeNext ==
    \/ TreeEmpty
    \/ TreeCall
    \/ TreePath
    \/ TreeDir
    \/ TreeDirSeen
    \/ TreeFile
    \/ TreeReturn
    \/ TreeAgain

SpecTree ==
    InitTree /\ [][TreeNext]_vars

----------------------------------------------------------------------------
(* Properties of the file tree *)

\* the call of _build_file_tree has returned
TreeDone ==
    tree_pc = "done"

\* the lines of the returned text: the pieces between its line ends
TreeOutLines ==
    With(Split(tree_output[1], "\n"), LAMBDA pieces : SubSeq(pieces, 1, Len(pieces) - 1))

\* the number of spaces a line of the tree begins with
TreeIndent(ls, k) ==
    PrefixIn(ls[k], {" "})

\* the line of a directory ends with "/"
TreeIsDir(ls, k) ==
    EndsWith(ls[k], << "/" >>)

\* the name a line of the tree shows
TreeName(ls, k) ==
    With(Drop(ls[k], TreeIndent(ls, k)),
         LAMBDA n : IF TreeIsDir(ls, k) THEN SubSeq(n, 1, Len(n) - 1) ELSE n)

\* the nearest line before k with a smaller indentation; 0 if there is none
TreeParent(ls, k) ==
    LET above == {j \in 1..(k - 1) : TreeIndent(ls, j) < TreeIndent(ls, k)}
    IN  IF above = {} THEN 0 ELSE CHOOSE j \in above : \A i \in above : i <= j

\* the path a line of the tree stands for, read off the lines above it
RECURSIVE TreePathOf(_, _)
TreePathOf(ls, k) ==
    IF k <= 1 THEN << >>
    ELSE TreePathOf(ls, TreeParent(ls, k)) \o << TreeName(ls, k) >>

\* the directories above the files of the call
TreeDirsOf(files) ==
    UNION {{SubSeq(files[i], 1, d) : d \in 1..(Len(files[i]) - 1)} : i \in 1..Len(files)}

\* the returned tree as it reads: for every line its indentation, the line
\* it hangs below and the path it stands for, and the lines after the first
\* that show directories and those that show files
TreeRead ==
    With(TreeOutLines, LAMBDA ls :
        [lines  |-> ls,
         indent |-> [k \in 1..Len(ls) |-> TreeIndent(ls, k)],
         parent |-> [k \in 1..Len(ls) |-> TreeParent(ls, k)],
         path   |-> [k \in 1..Len(ls) |-> TreePathOf(ls, k)],
         dirs   |-> {k \in 2..Len(ls) : TreeIsDir(ls, k)},
         files  |-> {k \in 2..Len(ls) : ~ TreeIsDir(ls, k)}])

\* C21, first part: the text ends with a line end, its first line is the
\* repo name, and every other line is indented by two spaces for every level
\* of the path it stands for, below a directory line or the first line
TreeIsIndented(t) ==
    /\ tree_output[1][Len(tree_output[1])] = "\n"
    /\ t.lines[1] = RepoName \o << "/" >>
    /\ \A k \in 2..Len(t.lines) :
           /\ t.indent[k] = 2 * Len(t.path[k])
           /\ t.parent[k] = 1 \/ t.parent[k] \in t.dirs

\* C21, second part: every directory above a file has one line, every file
\* has one line, and no line stands for anything else
TreeShowsEachOnce(t) ==
    /\ {t.path[k] : k \in t.dirs} = TreeDirsOf(tree_files)
    /\ Cardinality(t.dirs) = Cardinality(TreeDirsOf(tree_files))
    /\ {t.path[k] : k \in t.files} = Range(tree_files)
    /\ Cardinality(t.files) = Len(tree_files)

\* C21, third part: a directory stands before every file below it, and the
\* files stand in the order of their path strings
TreeIsOrdered(t) ==
    /\ \A j \in t.dirs : \A k \in t.files :
           Above(t.path[j], t.path[k]) => j < k
    /\ \A j, k \in t.files :
           j < k => StrLess(PathStr(t.path[j]), PathStr(t.path[k]))

\* C21, fourth part: a call with the same files in another order of the list
\* returned the same text
TreeIgnoresListOrder ==
    \A c \in Range(tree_returned) :
        Range(c.files) = Range(tree_files) => c.output = tree_output

\* C21: for a non-empty list of files the returned tree begins with the repo
\* name, shows every directory prefix once and before every file below it,
\* shows every file once, indents a path of depth d by 2*d spaces, lists the
\* paths in lexicographic order so that the nearest line above with a smaller
\* indentation is the parent directory, and is the same for every order of
\* the list.
C21_TreeShowsTheSetOfPaths ==
    TreeDone /\ tree_files /= << >> =>
        /\ With(TreeRead, LAMBDA t :
                /\ TreeIsIndented(t)
                /\ TreeShowsEachOnce(t)
                /\ TreeIsOrdered(t))
        /\ TreeIgnoresListOrder

\* a second call has returned, for three files given in another order than
\* sorted: a directory with a file and a subdirectory, and a directory whose
\* name sorts before it only as a string
C21_Witness ==
    /\ TreeDone
    /\ tree_returned /= << >>
    /\ tree_files = << << <<"a">>, <<"b">>, <<"x">> >>, << <<"a", "-", "b">>, <<"x">> >>, << <<"a">>, <<"b", ".", "c">> >> >>
    /\ Len(TreeOutLines) = 7

----------------------------------------------------------------------------
(* Properties of prepare() on a repository without retained files *)

\* the walk keeps none of the entries of the repository
NothingRetained ==
    \A e \in disk : ~ Discovered(e)

\* the text "(empty)\n" as the budgeter reads it: its lines and their lengths
EmptyTreeText ==
    With(Split(<<"(", "e", "m", "p", "t", "y", ")">> \o << "\n" >>, "\n"),
         LAMBDA pieces : [i \in 1..(Len(pieces) - 1) |-> Line("other", Len(pieces[i]), 1)])

\* C22: for a repository with no retained file, whatever max_tokens is,
\* prepare returns a manifest with empty tier1_files, tier2_files and
\* tier3_files, the file tree "(empty)" and total_files = 0.
C22_EmptyRepositoryGivesEmptyManifest ==
    Returned /\ NothingRetained =>
        /\ manifest[1].tier1_files = << >>
        /\ manifest[1].tier2_files = << >>
        /\ manifest[1].tier3_files = << >>
        /\ manifest[1].file_tree = EmptyTreeText
        /\ manifest[1].total_files = 0

\* prepare has returned for a repository that holds entries but none that
\* the walk keeps, with a limit below the fixed overhead: both budget phases
\* ran, and the estimate is still over the limit
C22_Witness ==
    /\ Returned
    /\ NothingRetained
    /\ disk /= {}
    /\ max_tokens < PromptOverhead
    /\ manifest[1].estimated_tokens > max_tokens

----------------------------------------------------------------------------
(* Steps 3 and 4 of prepare() with the reads and extractions in any order *)

\* the largest number of directory entries of a repository whose files are
\* read in any order
MaxReadFiles ==
    3

\* the entries the walk keeps
ReadCatalogue ==
    {e \in Catalogue : Discovered(e)}

InitReads ==
    /\ disk \in {d \in SUBSET ReadCatalogue :
                    /\ Cardinality(d) <= MaxReadFiles
                    /\ \A e1, e2 \in d : e1.path = e2.path => e1 = e2}
    /\ max_tokens \in Budgets
    /\ pc = "walk"
    /\ sniffed = {}
    /\ text_reads = {}
    /\ all_files = << >>
    /\ tier1_paths = << >>
    /\ tier2_paths = << >>
    /\ tier3_paths = << >>
    /\ tier1_files = << >>
    /\ tier2_files = << >>
    /\ tier3_file_strs = << >>
    /\ file_tree = << >>
    /\ tree_tokens = 0
    /\ tier1_tokens = 0
    /\ total_tokens = 0
    /\ manifest = << >>
    /\ NoScan
    /\ NoTree
    /\ NoReads
    /\ NoCrawl

\* the paths whose read or extraction is still to come
Unread ==
    (Range(tier1_paths) \cup Range(tier2_paths)) \ DOMAIN read_content

Unextracted ==
    {p \in Range(tier2_paths) \cap DOMAIN read_content :
        read_content[p] /= << >> /\ p \notin DOMAIN read_signatures}

\* content = self._safe_read(fp), for any file of the two loops that was not
\* read yet; a Tier-1 file and a file that could not be read are finished
ReadFile ==
    /\ pc = "read1"
    /\ \E p \in Unread :
           /\ read_content' = (p :> SafeRead(Entry(p))) @@ read_content
           /\ text_reads' = text_reads \cup {p}
           /\ read_finished' =
                  IF p \in Range(tier2_paths) /\ SafeRead(Entry(p)) /= << >>
                  THEN read_finished
                  ELSE Append(read_finished, p)
    /\ UNCHANGED read_signatures
    /\ UNCHANGED << disk, max_tokens, pc, sniffed, all_files, tier1_paths, tier2_paths,
                    tier3_paths, tier1_files, tier2_files, tier3_file_strs, file_tree,
                    tree_tokens, tier1_tokens, total_tokens, manifest >>
    /\ UNCHANGED << scan_vars, tree_vars, crawl_vars >>

\* signatures = self._extract_signatures(content, language), for any Tier-2
\* file that was read
ExtractFile ==
    /\ pc = "read1"
    /\ \E p \in Unextracted :
           /\ read_signatures' =
                  (p :> ExtractSignatures(read_content[p][1], DetectLanguage(p)))
                      @@ read_signatures
           /\ read_finished' = Append(read_finished, p)
    /\ UNCHANGED read_content
    /\ UNCHANGED prep_vars
    /\ UNCHANGED << scan_vars, tree_vars, crawl_vars >>

\* the order in which the reads and extractions ended
InCompletionOrder(paths) ==
    SelectSeq(read_finished, LAMBDA p : p \in Range(paths))

\* for fp in tier1_paths, for fp in tier2_paths: the order of the lists
InPathOrder(paths) ==
    paths

\* the records of the loops of steps 3 and 4, made of what was read and
\* extracted
GatheredTier1(paths) ==
    With(SelectSeq(InPathOrder(paths), LAMBDA p : read_content[p] /= << >>),
         LAMBDA read : [i \in 1..Len(read) |->
                          [path |-> PathStr(read[i]), content |-> read_content[read[i]][1],
                           language |-> DetectLanguage(read[i])]])

GatheredTier2(paths) ==
    With(SelectSeq(InPathOrder(paths), LAMBDA p : read_content[p] /= << >>),
         LAMBDA read : [i \in 1..Len(read) |->
                          [path |-> PathStr(read[i]), signatures |-> read_signatures[read[i]],
                           language |-> DetectLanguage(read[i])]])

\* every read and every extraction has ended: the two lists are built, and
\* prepare() goes on with step 5
Gather ==
    /\ pc = "read1"
    /\ Unread = {}
    /\ Unextracted = {}
    /\ tier1_files' = GatheredTier1(tier1_paths)
    /\ tier2_files' = GatheredTier2(tier2_paths)
    /\ pc' = "tree"
    /\ UNCHANGED << disk, max_tokens, sniffed, text_reads, all_files, tier1_paths, tier2_paths,
                    tier3_paths, tier3_file_strs, file_tree, tree_tokens, tier1_tokens,
                    total_tokens, manifest >>
    /\ UNCHANGED << scan_vars, side_vars >>

ReadsNext ==
    \/ Walk
    \/ ReadFile
    \/ ExtractFile
    \/ Gather
    \/ BuildTree
    \/ Estimate
    \/ Demote
    \/ Truncate
    \/ Return

SpecReads ==
    InitReads /\ [][ReadsNext]_vars

----------------------------------------------------------------------------
(* Properties of the reads and extractions done in any order *)

\* what steps 5 to 8 of prepare() return for the two lists of records
ManifestOf(files1, files2) ==
    LET tree == BuildFileTree(RepoName, all_files)
        strs == [i \in 1..Len(tier3_paths) |-> PathStr(tier3_paths[i])]
        tree_t == EstimateTokens(tree)
        tier1_t == SumTokens(files1, ContentOf)
        total == TotalOf(tree_t, files1, files2)
        out == IF OverBudget(total, max_tokens)
               THEN DemoteLoop(files2, PromptOverhead + tree_t + tier1_t, strs, max_tokens)
               ELSE [running |-> total, kept |-> << >>, tier3 |-> strs]
        kept2 == IF OverBudget(total, max_tokens) THEN RestoreOrder(out.kept) ELSE files2
        over == OverBudget(out.running, max_tokens)
        kept1 == IF over
                 THEN [i \in 1..Len(files1) |->
                          [files1[i] EXCEPT !.content = TruncateContent(@)]]
                 ELSE files1
    IN  [repo_name |-> RepoName,
         file_tree |-> tree,
         tier1_files |-> kept1,
         tier2_files |-> kept2,
         tier3_files |-> StableSort(out.tier3, StrLess),
         total_files |-> Len(all_files),
         estimated_tokens |-> IF over THEN TotalOf(tree_t, kept1, kept2) ELSE out.running]

\* the manifest of the run that reads and extracts in the order of the loops
SequentialManifest ==
    ManifestOf(ReadTier1Files(tier1_paths), ReadTier2Files(tier2_paths))

----------------------------------------------------------------------------
(* CrawlManager (src/src/api/crawl_manager.py): start(), is_running() and *)
(* the pipeline threads                                                    *)

\* the largest number of threads that call start() at the same time
MaxCallers ==
    2

\* the largest number of calls of start()
MaxStarts ==
    2

Callers ==
    1..MaxCallers

\* STAGE_ORDER
STAGE_ORDER ==
    << "discover", "clone", "analyze", "output", "reloading" >>

\* CrawlJob(job_id=..., status=...): the fields the manager and the pipeline
\* write
CrawlJob(status) ==
    [status |-> status, current_stage |-> "idle", error |-> "None"]

\* threading.Thread(target=self._run_pipeline): not started yet
NewThread ==
    [state |-> "new", stage |-> -1]

\* CrawlManager.__init__: the job "none", no thread, and callers that have
\* not called start() yet
InitCrawl ==
    /\ NoPrepare
    /\ NoScan
    /\ NoTree
    /\ NoReads
    /\ crawl_pc = [c \in Callers |-> "idle"]
    /\ crawl_job_id = [c \in Callers |-> 0]
    /\ crawl_calls = 0
    /\ crawl_lock = 0
    /\ crawl_jobs = << CrawlJob("idle") >>
    /\ crawl_job = 1
    /\ crawl_thread = 0
    /\ crawl_threads = << >>
    /\ crawl_result = [c \in Callers |-> "none"]

\* threading.Thread.is_alive() of self._thread
IsAlive(thread) ==
    crawl_threads[thread].state = "alive"

\* start() is called; with self._lock: the caller waits until the lock is
\* free and takes it
CrawlStart(c) ==
    /\ crawl_pc[c] = "idle"
    /\ crawl_calls < MaxStarts
    /\ crawl_lock = 0
    /\ crawl_lock' = c
    /\ crawl_calls' = crawl_calls + 1
    /\ crawl_pc' = [crawl_pc EXCEPT ![c] = "is_running"]
    /\ crawl_job_id' = [crawl_job_id EXCEPT ![c] = 0]
    /\ crawl_result' = [crawl_result EXCEPT ![c] = "none"]
    /\ UNCHANGED << crawl_job, crawl_jobs, crawl_thread, crawl_threads >>
    /\ UNCHANGED << prep_vars, scan_vars, tree_vars, read_vars >>

\* is_running: if self.job.status == "running"
CrawlStatusTest(c) ==
    /\ crawl_pc[c] = "is_running"
    /\ crawl_pc' = [crawl_pc EXCEPT ![c] =
                       IF crawl_jobs[crawl_job].status = "running" THEN "is_alive" ELSE "create"]
    /\ UNCHANGED << crawl_job_id, crawl_calls, crawl_lock, crawl_job, crawl_jobs, crawl_thread,
                    crawl_threads, crawl_result >>
    /\ UNCHANGED << prep_vars, scan_vars, tree_vars, read_vars >>

\* is_running: if self._thread is None or not self._thread.is_alive()
CrawlAliveTest(c) ==
    /\ crawl_pc[c] = "is_alive"
    /\ crawl_pc' = [crawl_pc EXCEPT ![c] =
                       IF crawl_thread = 0 \/ ~ IsAlive(crawl_thread) THEN "recover" ELSE "refuse"]
    /\ UNCHANGED << crawl_job_id, crawl_calls, crawl_lock, crawl_job, crawl_jobs, crawl_thread,
                    crawl_threads, crawl_result >>
    /\ UNCHANGED << prep_vars, scan_vars, tree_vars, read_vars >>

\* is_running: the stale "running" state is recovered, and False returned
CrawlRecover(c) ==
    /\ crawl_pc[c] = "recover"
    /\ crawl_jobs' = [crawl_jobs EXCEPT ![crawl_job] =
                         [status |-> "failed", current_stage |-> "failed",
                          error |-> IF @.error /= "None" THEN @.error ELSE "thread died"]]
    /\ crawl_pc' = [crawl_pc EXCEPT ![c] = "create"]
    /\ UNCHANGED << crawl_job_id, crawl_calls, crawl_lock, crawl_job, crawl_thread,
                    crawl_threads, crawl_result >>
    /\ UNCHANGED << prep_vars, scan_vars, tree_vars, read_vars >>

\* is_running returned True: the error dict is returned and the lock released
CrawlRefuse(c) ==
    /\ crawl_pc[c] = "refuse"
    /\ crawl_result' = [crawl_result EXCEPT ![c] = "error"]
    /\ crawl_lock' = 0
    /\ crawl_pc' = [crawl_pc EXCEPT ![c] = "idle"]
    /\ UNCHANGED << crawl_job_id, crawl_calls, crawl_job, crawl_jobs, crawl_thread,
                    crawl_threads >>
    /\ UNCHANGED << prep_vars, scan_vars, tree_vars, read_vars >>

\* self.job = CrawlJob(job_id=job_id, status="running", ...)
CrawlCreateJob(c) ==
    /\ crawl_pc[c] = "create"
    /\ crawl_jobs' = Append(crawl_jobs, CrawlJob("running"))
    /\ crawl_job' = Len(crawl_jobs) + 1
    /\ crawl_job_id' = [crawl_job_id EXCEPT ![c] = Len(crawl_jobs) + 1]
    /\ crawl_pc' = [crawl_pc EXCEPT ![c] = "release"]
    /\ UNCHANGED << crawl_calls, crawl_lock, crawl_thread, crawl_threads, crawl_result >>
    /\ UNCHANGED << prep_vars, scan_vars, tree_vars, read_vars >>

\* the with block ends: the lock is released
CrawlRelease(c) ==
    /\ crawl_pc[c] = "release"
    /\ crawl_lock' = 0
    /\ crawl_pc' = [crawl_pc EXCEPT ![c] = "thread"]
    /\ UNCHANGED << crawl_job_id, crawl_calls, crawl_job, crawl_jobs, crawl_thread,
                    crawl_threads, crawl_result >>
    /\ UNCHANGED << prep_vars, scan_vars, tree_vars, read_vars >>

\* self._thread = threading.Thread(target=self._run_pipeline, ...)
CrawlMakeThread(c) ==
    /\ crawl_pc[c] = "thread"
    /\ crawl_threads' = Append(crawl_threads, NewThread)
    /\ crawl_thread' = Len(crawl_threads) + 1
    /\ crawl_pc' = [crawl_pc EXCEPT ![c] = "start"]
    /\ UNCHANGED << crawl_job_id, crawl_calls, crawl_lock, crawl_job, crawl_jobs, crawl_result >>
    /\ UNCHANGED << prep_vars, scan_vars, tree_vars, read_vars >>

\* self._thread.start(): the thread self._thread is at this moment begins
\* _run_pipeline
CrawlStartThread(c) ==
    /\ crawl_pc[c] = "start"
    /\ crawl_threads[crawl_thread].state = "new"
    /\ crawl_threads' = [crawl_threads EXCEPT ![crawl_thread].state = "alive"]
    /\ crawl_pc' = [crawl_pc EXCEPT ![c] = "return"]
    /\ UNCHANGED << crawl_job_id, crawl_calls, crawl_lock, crawl_job, crawl_jobs, crawl_thread,
                    crawl_result >>
    /\ UNCHANGED << prep_vars, scan_vars, tree_vars, read_vars >>

\* self._thread.start() on a thread that was started before: RuntimeError,
\* which start() lets through to its caller
CrawlStartTwice(c) ==
    /\ crawl_pc[c] = "start"
    /\ crawl_threads[crawl_thread].state /= "new"
    /\ crawl_result' = [crawl_result EXCEPT ![c] = "RuntimeError"]
    /\ crawl_lock' = IF crawl_lock = c THEN 0 ELSE crawl_lock
    /\ crawl_pc' = [crawl_pc EXCEPT ![c] = "idle"]
    /\ UNCHANGED << crawl_job_id, crawl_calls, crawl_job, crawl_jobs, crawl_thread,
                    crawl_threads >>
    /\ UNCHANGED << prep_vars, scan_vars, tree_vars, read_vars >>

\* return self.job.to_dict()
CrawlReturn(c) ==
    /\ crawl_pc[c] = "return"
    /\ crawl_result' = [crawl_result EXCEPT ![c] = crawl_jobs[crawl_job].status]
    /\ crawl_lock' = IF crawl_lock = c THEN 0 ELSE crawl_lock
    /\ crawl_pc' = [crawl_pc EXCEPT ![c] = "idle"]
    /\ UNCHANGED << crawl_job_id, crawl_calls, crawl_job, crawl_jobs, crawl_thread,
                    crawl_threads >>
    /\ UNCHANGED << prep_vars, scan_vars, tree_vars, read_vars >>

\* the places of the Thread objects: every call of start() makes one at most
Threads ==
    1..MaxStarts

\* the thread is inside the try block of _run_pipeline
InPipeline(t) ==
    /\ t <= Len(crawl_threads)
    /\ crawl_threads[t].state = "alive"
    /\ crawl_threads[t].stage < Len(STAGE_ORDER)

\* _run_pipeline: the work of a stage is done and _set_stage writes the
\* next stage to self.job
PipelineSetStage(t) ==
    /\ InPipeline(t)
    /\ crawl_threads[t].stage < Len(STAGE_ORDER) - 1
    /\ crawl_threads' = [crawl_threads EXCEPT ![t].stage = @ + 1]
    /\ crawl_jobs' = [crawl_jobs EXCEPT ![crawl_job].current_stage =
                         STAGE_ORDER[crawl_threads[t].stage + 2]]
    /\ UNCHANGED << crawl_pc, crawl_job_id, crawl_calls, crawl_lock, crawl_job, crawl_thread,
                    crawl_result >>
    /\ UNCHANGED << prep_vars, scan_vars, tree_vars, read_vars >>

\* _run_pipeline: the last stage is done, self.job.status = "completed"
PipelineComplete(t) ==
    /\ InPipeline(t)
    /\ crawl_threads[t].stage = Len(STAGE_ORDER) - 1
    /\ crawl_threads' = [crawl_threads EXCEPT ![t].stage = Len(STAGE_ORDER)]
    /\ crawl_jobs' = [crawl_jobs EXCEPT ![crawl_job].status = "completed",
                                        ![crawl_job].current_stage = "completed"]
    /\ UNCHANGED << crawl_pc, crawl_job_id, crawl_calls, crawl_lock, crawl_job, crawl_thread,
                    crawl_result >>
    /\ UNCHANGED << prep_vars, scan_vars, tree_vars, read_vars >>

\* _run_pipeline: a stage raises, and the except clause writes the failure
\* to self.job
PipelineFail(t) ==
    /\ InPipeline(t)
    /\ crawl_threads' = [crawl_threads EXCEPT ![t].stage = Len(STAGE_ORDER)]
    /\ crawl_jobs' = [crawl_jobs EXCEPT ![crawl_job] =
                         [status |-> "failed", current_stage |-> "failed", error |-> "exc"]]
    /\ UNCHANGED << crawl_pc, crawl_job_id, crawl_calls, crawl_lock, crawl_job, crawl_thread,
                    crawl_result >>
    /\ UNCHANGED << prep_vars, scan_vars, tree_vars, read_vars >>

\* _run_pipeline returns and the thread ends
PipelineExit(t) ==
    /\ t <= Len(crawl_threads)
    /\ crawl_threads[t].state = "alive"
    /\ crawl_threads[t].stage = Len(STAGE_ORDER)
    /\ crawl_threads' = [crawl_threads EXCEPT ![t].state = "dead"]
    /\ UNCHANGED << crawl_pc, crawl_job_id, crawl_calls, crawl_lock, crawl_job, crawl_jobs,
                    crawl_thread, crawl_result >>
    /\ UNCHANGED << prep_vars, scan_vars, tree_vars, read_vars >>

CrawlNext ==
    \/ \E c \in Callers :
           \/ CrawlStart(c)
           \/ CrawlStatusTest(c)
           \/ CrawlAliveTest(c)
           \/ CrawlRecover(c)
           \/ CrawlRefuse(c)
           \/ CrawlCreateJob(c)
           \/ CrawlRelease(c)
           \/ CrawlMakeThread(c)
           \/ CrawlStartThread(c)
           \/ CrawlStartTwice(c)
           \/ CrawlReturn(c)
    \/ \E t \in Threads :
           \/ PipelineSetStage(t)
           \/ PipelineComplete(t)
           \/ PipelineFail(t)
           \/ PipelineExit(t)

SpecCrawl ==
    InitCrawl /\ [][CrawlNext]_vars

----------------------------------------------------------------------------
(* Properties of CrawlManager *)

\* the threads that execute _run_pipeline
PipelineThreads ==
    {t \in Threads : InPipeline(t)}

\* the callers that have made their job and not yet started its thread
BeforeThreadStart ==
    {c \in Callers : crawl_pc[c] \in {"release", "thread", "start"}}

\* C24: under every interleaving of calls of start() with each other and
\* with the pipeline threads, at most one thread executes _run_pipeline at a
\* time, a call that finds a crawl running returns the error and makes no
\* job, and a job made as "running" is not marked "failed" before the thread
\* of its call has been started.
C24_OnePipelineAtATime ==
    /\ Cardinality(PipelineThreads) <= 1
    /\ Cardinality(BeforeThreadStart) <= 1
    /\ \A c \in BeforeThreadStart : crawl_jobs[crawl_job_id[c]].status = "running"

----------------------------------------------------------------------------
(* Properties of the index a scanner returns *)

\* the index of the first line at or after start that is not blank and is
\* indented by parent_indent or less; the number of lines when there is none
PyFirstExit(start, parent_indent) ==
    With({k \in start..(Len(scan_lines) - 1) :
              /\ LStrip(LineAt(k)) /= << >>
              /\ IndentOf(LineAt(k)) <= parent_indent},
         LAMBDA exits : IF exits = {} THEN Len(scan_lines)
                        ELSE CHOOSE k \in exits : \A j \in exits : k <= j)

\* the running call of _extract_python_block is at its return
PyBlockReturns ==
    /\ scan_pc = "py_block"
    /\ \/ scan_i >= Len(scan_lines)
       \/ PyBranch(LineAt(scan_i), PyParentIndent) = "dedent"

\* C25: a call of _extract_python_block with start s and parent_indent p
\* returns the index of the first line at or after s that is not blank and
\* is indented by p or less, or the number of lines when there is no such
\* line; with p = -1 that is the number of lines
C25_PythonBlockReturnsFirstExit ==
    PyBlockReturns =>
        scan_i = PyFirstExit(scan_stack[Len(scan_stack)].start, PyParentIndent)


\* the braces of the file balance: every "}" closes a "{" of a line before
\* it or of its own line, and no "{" is left open
BracesBalance ==
    /\ BraceDepthBefore(Len(scan_lines)) = 0
    /\ \A k \in Places : BraceDepthBefore(k + 1) >= 0

\* the place of the line with the closing brace that matches the first "{"
\* at or after the line d of a file whose braces balance
MatchingClose(d) ==
    With(CHOOSE o \in Places :
             /\ o >= d /\ Contains(LineAt(o), <<"{">>)
             /\ \A j \in d..(o - 1) : ~ Contains(LineAt(j), <<"{">>),
         LAMBDA open :
             CHOOSE k \in Places :
                 /\ k >= open /\ BraceDepthBefore(k + 1) = BraceDepthBefore(d)
                 /\ \A j \in open..(k - 1) : BraceDepthBefore(j + 1) /= BraceDepthBefore(d))

\* _skip_brace_block_from is at its return in the scan of a Go or Rust file
\* whose braces balance, called for a func or fn declaration at top level
\* that has a body
SkipOfTopLevelFunctionReturns ==
    /\ scan_language \in {"go", "rust"}
    /\ BracesBalance
    /\ scan_pc = "cb_skip"
    /\ scan_i >= Len(scan_lines) \/ scan_loc.depth <= 0
    /\ BraceDepthBefore(scan_loc.start) = 0
    /\ \E o \in Places : o >= scan_loc.start /\ Contains(LineAt(o), <<"{">>)

\* C26: for a func or fn declaration at top level of a Go or Rust file whose
\* braces balance, the skip of the body ends at the line after the closing
\* brace that matches the "{" of the function, so that the scan of the top
\* level resumes there, also when the whole body is on the signature line
C26_FunctionSkipEndsAfterMatchingBrace ==
    SkipOfTopLevelFunctionReturns => scan_i = MatchingClose(scan_loc.start) + 1


\* _extract_member_signatures is at its return in the scan of a file whose
\* braces balance
MemberScanReturns ==
    /\ scan_language \in {"java", "go", "csharp", "rust"}
    /\ BracesBalance
    /\ scan_pc = "cb_member"
    /\ scan_i >= Len(scan_lines) \/ scan_loc.depth <= 0

\* C27: for a type declaration of a file whose braces balance,
\* _extract_member_signatures, called with the index after the line with
\* the "{" of the type, returns the index after the line with the closing
\* brace that matches it, also when that brace is on the declaration line
C27_MemberScanReturnsAfterMatchingBrace ==
    MemberScanReturns => scan_i = MatchingClose(scan_loc.start - 1) + 1


\* the index the running call of _extract_js_ts_level returns, when the
\* call is at a return
JsReturned ==
    IF scan_i < Len(scan_lines) THEN scan_i + 1 ELSE scan_i

\* the call of _extract_js_ts_level for the body of a class is at a return
\* in the scan of a file whose braces balance: at a line that begins with
\* "}" or at the end of the lines
ClassBodyScanReturns ==
    /\ scan_language \in {"javascript", "typescript"}
    /\ BracesBalance
    /\ scan_pc = "js_level"
    /\ JsInClass
    /\ scan_i < Len(scan_lines) => JsBranch(LineAt(scan_i), TRUE) = "close"

\* C28: for a class of a JavaScript or TypeScript file whose braces balance,
\* the call of _extract_js_ts_level for the class body, entered after the
\* line with the "{" of the class, returns the index after the line with the
\* closing brace that matches it, also when the class has a field with a
\* value in braces or has its braces on the declaration line
C28_ClassBodyScanReturnsAfterClassBrace ==
    ClassBodyScanReturns =>
        JsReturned = MatchingClose(scan_stack[Len(scan_stack)].start - 1) + 1

----------------------------------------------------------------------------
(* Properties of the truncation phase and of the greedy fit *)

\* the truncation phase runs: the total is over the limit after the
\* demotion phase
TruncationRuns ==
    /\ pc = "truncate"
    /\ OverBudget(total_tokens, max_tokens)

\* C29: when the truncation phase runs, the estimated cost of each Tier-1
\* record after it is at most its cost before it, and the total after it,
\* which is the estimated_tokens of the manifest, is at most the total the
\* demotion phase left
C29_TruncationNeverIncreasesSize ==
    [][TruncationRuns =>
          /\ \A i \in 1..Len(tier1_files) :
                 EstimateTokens(tier1_files'[i].content)
                     <= EstimateTokens(tier1_files[i].content)
          /\ total_tokens' <= total_tokens]_vars


\* C30: in a returned manifest no Tier-2 record the budgeter demoted could
\* have been kept within the limit: estimated_tokens plus the cost of the
\* record exceeds max_tokens, also when the truncation phase has run
C30_GreedyFitIsTight ==
    Returned =>
        \A i \in Demoted(manifest[1]) :
            manifest[1].estimated_tokens + EstimateTokens(BudgetedTier2[i].signatures)
                > max_tokens

============================================================================
